---- MODULE Spec2Model ----
(***************************************************************************)
(* nrs: interactive selection engine (src/tui/app.rs, src/tui/input.rs),   *)
(* the fuzzy filter (src/filter/fuzzy.rs), the history ranking             *)
(* (src/history/storage.rs) and the caller that spawns the chosen scripts  *)
(* (src/tui/ui.rs run_tui, src/main.rs run).                               *)
(*                                                                         *)
(* Indices are 0-based as in the Rust code; Nth(s, i) reads element i of a *)
(* TLA+ sequence.  Strings are sequences of one-character strings.         *)
(* Option<T> is a sequence of length 0 (None) or 1 (Some).                 *)
(***************************************************************************)
EXTENDS Integers, Sequences, FiniteSets, TLC

VARIABLES app, pc, scripts_to_run, next_run, spawned, exit_status,
          committed, prev_kind, prev_selected, prev_sort_mode, quit_key,
          root_scripts, terminal, hs, rl, child_results

vars == <<app, pc, scripts_to_run, next_run, spawned, exit_status,
          committed, prev_kind, prev_selected, prev_sort_mode, quit_key,
          root_scripts, terminal, hs, rl, child_results>>

\* ---------------------------------------------------------------- bounds
\* Longest filter query typed in a run of the model.
MaxLen == 2

\* Longest args input typed in a run of the model.
MaxArgsLen == 1

\* Characters typed into the Filter and Args text buffers.  "c" is not
\* among them: it enters a buffer through Ctrl+C only.
TypedChars == {"t", "0", "1"}

\* Terminal widths reported by the terminal (1, 2 and 3 grid columns).
Widths == {50, 80, 100}

\* Exit codes a spawned child may report.
ChildCodes == {0, 1}

\* ------------------------------------------------------------ characters
\* The characters of the model in byte order (Rust compares str bytewise).
AlphabetOrder ==
  <<" ", "/", "0", "1", "2", "3", "4", "5", "6", "7", "8", "9", ":", "?", "G",
    "a", "b", "c", "d", "e", "g", "h", "i", "j", "k", "l", "m", "n", "o",
    "q", "s", "t", "u", "w">>

Alphabet == {AlphabetOrder[i] : i \in 1..Len(AlphabetOrder)}

CodeOf ==
  [c \in Alphabet |-> CHOOSE i \in 1..Len(AlphabetOrder) : AlphabetOrder[i] = c]

Code(c) == CodeOf[c]

\* `c.is_ascii_digit() && c != '0'` and `c.to_digit(10)`.
Digits19 == {"1", "2", "3", "4", "5", "6", "7", "8", "9"}

DigitValue(c) == Code(c) - Code("0")

to_lowercase_char(c) == IF c = "G" THEN "g" ELSE c

to_lowercase(s) == [i \in 1..Len(s) |-> to_lowercase_char(s[i])]

Nth(s, i) == s[i + 1]

Range(s) == {s[i] : i \in 1..Len(s)}

Min(a, b) == IF a < b THEN a ELSE b

\* Rust `str::cmp`: -1, 0, 1 for Less, Equal, Greater (lexicographic by byte).
RECURSIVE str_cmp(_, _)
str_cmp(a, b) ==
  IF a = <<>> /\ b = <<>> THEN 0
  ELSE IF a = <<>> THEN -1
  ELSE IF b = <<>> THEN 1
  ELSE IF Code(Head(a)) < Code(Head(b)) THEN -1
  ELSE IF Code(Head(a)) > Code(Head(b)) THEN 1
  ELSE str_cmp(Tail(a), Tail(b))

\* Mutant: the whole name is taken as the category.
category_whole_name(name) == name

\* `name.split(':').next()`: the text before the first ':'.
RECURSIVE category(_)
category(name) ==
  IF name = <<>> \/ Head(name) = ":" THEN <<>>
  ELSE <<Head(name)>> \o category(Tail(name))

\* --------------------------------------------------------------- scripts
Script(n, d) == [name |-> n, description |-> d]

NoDesc == <<>>

\* Stores as the manifest parser delivers them: unique names, alphabetical.
StoreRoot ==
  << Script(<<"b","u","i","l","d">>, <<<<"c","o","m","b","i","n","e">>>>),
     Script(<<"l","i","n","t">>, NoDesc),
     Script(<<"t","e","s","t">>, NoDesc),
     Script(<<"t","e","s","t",":","c","i">>, NoDesc) >>

StoreWeb ==
  << Script(<<"d","e","v">>, NoDesc),
     Script(<<"t","e","s","t">>, NoDesc) >>

StoreApi ==
  << Script(<<"a","0">>, NoDesc),
     Script(<<"a",":","c">>, NoDesc),
     Script(<<"c","i">>, <<<<"t","e","s","t">>>>) >>

Workspace(n, s) == [name |-> n, scripts |-> s]

\* name -> [count, days_ago] for the scripts that have a history entry.
HistEntry(n, c, d) == [name |-> n, count |-> c, days_ago |-> d]

HistoryNone == {}

HistorySome ==
  { HistEntry(<<"t","e","s","t">>, 3, 0),
    HistEntry(<<"l","i","n","t">>, 100, 5),
    HistEntry(<<"c","i">>, 1, 40) }

\* The projects the application is started on.
Projects ==
  { [scripts |-> StoreRoot, workspaces |-> <<>>, history |-> HistoryNone],
    [scripts |-> StoreRoot, workspaces |-> <<>>, history |-> HistorySome],
    [scripts |-> <<>>, workspaces |-> <<>>, history |-> HistoryNone],
    [scripts |-> StoreRoot,
     workspaces |-> <<Workspace(<<"w","e","b">>, StoreWeb),
                      Workspace(<<"a","i">>, StoreApi)>>,
     history |-> HistorySome] }

SortModes == {"Recent", "Alpha", "Category"}


\* ------------------------------------------------------------ sorting
RECENCY_DECAY_DAYS == 30

GENERAL_ERROR == 1

INTERRUPTED == 130

\* Mutant: the recency keeps falling after RECENCY_DECAY_DAYS.
score_at_no_floor(h) ==
  9 * Min(h.count, 100)
    + 70 * (IF h.days_ago <= 0 THEN RECENCY_DECAY_DAYS
            ELSE RECENCY_DECAY_DAYS - h.days_ago)

\* ScriptHistory::score_at, scaled by 3000 so that it stays an integer:
\* 0.3 * min(count,100)/100 + 0.7 * recency.
score_at(h) ==
  LET days_ago == h.days_ago
      recency30 == IF days_ago <= 0 THEN RECENCY_DECAY_DAYS
                   ELSE IF days_ago >= RECENCY_DECAY_DAYS THEN 0
                   ELSE RECENCY_DECAY_DAYS - days_ago
  IN 9 * Min(h.count, 100) + 70 * recency30

\* The comparators handed to sort_by / sort_unstable_by: -1, 0, 1.
int_cmp(x, y) == IF x < y THEN -1 ELSE IF x > y THEN 1 ELSE 0

then_with(c, d) == IF c # 0 THEN c ELSE d

\* Mutant: equal scores are not ordered by name.
cmp_score_only(kind, scripts, x, y) ==
  CASE kind = "score"    -> int_cmp(y[2], x[2])
    [] kind = "recent"   -> int_cmp(y[2], x[2])
    [] kind = "last_run" -> int_cmp(x[2], y[2])
    [] kind = "alpha"    -> str_cmp(Nth(scripts, x).name, Nth(scripts, y).name)
    [] kind = "category" ->
         then_with(str_cmp(category(Nth(scripts, x).name),
                           category(Nth(scripts, y).name)),
                   str_cmp(Nth(scripts, x).name, Nth(scripts, y).name))

cmp(kind, scripts, x, y) ==
  CASE kind = "score"    -> int_cmp(y[2], x[2])
    [] kind = "recent"   -> then_with(int_cmp(y[2], x[2]),
                                      str_cmp(x[1].name, y[1].name))
    [] kind = "last_run" -> int_cmp(x[2], y[2])
    [] kind = "alpha"    -> str_cmp(Nth(scripts, x).name, Nth(scripts, y).name)
    [] kind = "category" ->
         then_with(str_cmp(category(Nth(scripts, x).name),
                           category(Nth(scripts, y).name)),
                   str_cmp(Nth(scripts, x).name, Nth(scripts, y).name))

\* Insert x behind every element that does not compare greater than it.
RECURSIVE insert_sorted(_, _, _, _)
insert_sorted(kind, scripts, x, s) ==
  IF s = <<>> THEN <<x>>
  ELSE IF cmp(kind, scripts, x, Head(s)) < 0 THEN <<x>> \o s
  ELSE <<Head(s)>> \o insert_sorted(kind, scripts, x, Tail(s))

\* Vec::sort_by: a stable sort under the comparator `kind`.
RECURSIVE sort_by(_, _, _)
sort_by(kind, scripts, s) ==
  IF s = <<>> THEN <<>>
  ELSE insert_sorted(kind, scripts, s[Len(s)],
                     sort_by(kind, scripts, SubSeq(s, 1, Len(s) - 1)))

\* ------------------------------------------------------------ fuzzy filter
RECURSIVE is_subsequence(_, _)
is_subsequence(pattern, text) ==
  IF pattern = <<>> THEN TRUE
  ELSE IF text = <<>> THEN FALSE
  ELSE IF Head(pattern) = Head(text)
       THEN is_subsequence(Tail(pattern), Tail(text))
       ELSE is_subsequence(pattern, Tail(text))

\* Position (1-based) at which the leftmost match of pattern in text ends.
RECURSIVE match_end(_, _, _)
match_end(pattern, text, at) ==
  IF pattern = <<>> THEN at - 1
  ELSE IF Head(pattern) = Head(text)
       THEN match_end(Tail(pattern), Tail(text), at + 1)
       ELSE match_end(pattern, Tail(text), at + 1)

\* The matcher of the fuzzy_matcher crate: None when the pattern is not a
\* subsequence of the choice, else a score that grows with the pattern
\* length, prefers a match at the head and loses a point per skipped
\* character.
fuzzy_match(choice, pattern) ==
  IF ~is_subsequence(pattern, choice) THEN <<>>
  ELSE << 16 * Len(pattern)
          + (IF Head(pattern) = Head(choice) THEN 16 ELSE 0)
          - (match_end(pattern, choice, 1) - Len(pattern)) >>

\* filter_scripts: the entry (idx, score) of script idx, or no entry.
filter_entry(query_lower, scripts, search_descriptions, idx) ==
  LET script == Nth(scripts, idx)
      byName == fuzzy_match(to_lowercase(script.name), query_lower)
      byDesc == IF search_descriptions /\ script.description # <<>>
                THEN fuzzy_match(to_lowercase(script.description[1]),
                                 query_lower)
                ELSE <<>>
  IN IF byName # <<>> THEN << <<idx, byName[1]>> >>
     ELSE IF byDesc # <<>> THEN << <<idx, byDesc[1] \div 2>> >>
     ELSE <<>>

RECURSIVE filter_matches(_, _, _, _)
filter_matches(query_lower, scripts, search_descriptions, idx) ==
  IF idx >= Len(scripts) THEN <<>>
  ELSE filter_entry(query_lower, scripts, search_descriptions, idx)
       \o filter_matches(query_lower, scripts, search_descriptions, idx + 1)

filter_scripts(query, scripts, search_descriptions) ==
  IF query = <<>> THEN [i \in 1..Len(scripts) |-> <<i - 1, 0>>]
  ELSE sort_by("score", scripts,
               filter_matches(to_lowercase(query), scripts,
                              search_descriptions, 0))

\* ------------------------------------------------------------ history
get_script(history, name) ==
  IF \E h \in history : h.name = name
  THEN <<CHOOSE h \in history : h.name = name>>
  ELSE <<>>

get_sorted_by_recent(history, scripts) ==
  LET scored == [i \in 1..Len(scripts) |->
                   <<scripts[i],
                     IF get_script(history, scripts[i].name) = <<>> THEN 0
                     ELSE score_at(get_script(history, scripts[i].name)[1])>>]
      sorted == sort_by("recent", scripts, scored)
  IN [i \in 1..Len(sorted) |-> sorted[i][1]]


\* ------------------------------------------------------------ AppMode
Mode(k, q, sel, idx, inp) ==
  [kind |-> k, query |-> q, selected |-> sel, script_index |-> idx,
   input |-> inp]

ModeNormal == Mode("Normal", <<>>, {}, 0, <<>>)
ModeFilter(q) == Mode("Filter", q, {}, 0, <<>>)
ModeMultiSelect(sel) == Mode("MultiSelect", <<>>, sel, 0, <<>>)
ModeHelp == Mode("Help", <<>>, {}, 0, <<>>)
ModeError == Mode("Error", <<>>, {}, 0, <<>>)
ModeArgs(idx, inp) == Mode("Args", <<>>, {}, idx, inp)
ModeWorkspaceSelect == Mode("WorkspaceSelect", <<>>, {}, 0, <<>>)

ContextRoot == [kind |-> "Root", index |-> 0]
ContextWorkspace(i) == [kind |-> "Workspace", index |-> i]

ScriptRun(s, a, w) == [script |-> s, args |-> a, workspace |-> w]

saturating_sub(a, b) == IF a >= b THEN a - b ELSE 0

\* ------------------------------------------------------------ App
set_mode(a, m) == [a EXCEPT !.mode = m]

\* Position of the first script called `name`.
position(scripts, name) ==
  IF \E i \in 1..Len(scripts) : scripts[i].name = name
  THEN <<(CHOOSE i \in 1..Len(scripts) :
            /\ scripts[i].name = name
            /\ \A j \in 1..(i - 1) : scripts[j].name # name) - 1>>
  ELSE <<>>

RECURSIVE flatten(_)
flatten(ss) == IF ss = <<>> THEN <<>> ELSE Head(ss) \o flatten(Tail(ss))

InStore(a, i) == i >= 0 /\ i < Len(a.scripts)

sort_indices(a, indices) ==
  CASE a.sort_mode = "Recent" ->
         LET valid == SelectSeq(indices, LAMBDA i : InStore(a, i))
             scripts_owned == [k \in 1..Len(valid) |-> Nth(a.scripts, valid[k])]
             sorted == get_sorted_by_recent(a.history, scripts_owned)
             mapped == flatten([k \in 1..Len(sorted) |->
                                  position(a.scripts, sorted[k].name)])
         IN SelectSeq(mapped, LAMBDA i : i \in Range(indices))
    [] a.sort_mode = "Alpha" -> sort_by("alpha", a.scripts, indices)
    [] a.sort_mode = "Category" -> sort_by("category", a.scripts, indices)

\* Mutant: the selection is not clamped after the projection changed.
update_visible_scripts_noclamp(a) ==
  LET matches == filter_scripts(a.filter_text, a.scripts,
                                a.search_descriptions)
      filtered_indices ==
        IF a.filter_text = <<>> THEN [i \in 1..Len(a.scripts) |-> i - 1]
        ELSE [k \in 1..Len(matches) |-> matches[k][1]]
  IN [a EXCEPT !.visible_indices = sort_indices(a, filtered_indices)]

update_visible_scripts(a) ==
  LET matches == filter_scripts(a.filter_text, a.scripts,
                                a.search_descriptions)
      filtered_indices ==
        IF a.filter_text = <<>> THEN [i \in 1..Len(a.scripts) |-> i - 1]
        ELSE [k \in 1..Len(matches) |-> matches[k][1]]
      visible == sort_indices(a, filtered_indices)
  IN [a EXCEPT !.visible_indices = visible,
               !.selected = IF a.selected >= Len(visible)
                            THEN saturating_sub(Len(visible), 1)
                            ELSE a.selected]

with_workspaces(scripts, default_sort, history, workspaces) ==
  update_visible_scripts(
    [scripts |-> scripts,
     history |-> history,
     search_descriptions |-> TRUE,
     is_monorepo |-> workspaces # <<>>,
     workspaces |-> workspaces,
     workspace_context |-> ContextRoot,
     workspace_selected |-> 0,
     mode |-> IF workspaces # <<>> THEN ModeWorkspaceSelect ELSE ModeNormal,
     selected |-> 0,
     filter_text |-> <<>>,
     sort_mode |-> default_sort,
     visible_indices |-> [i \in 1..Len(scripts) |-> i - 1],
     columns |-> 1,
     should_quit |-> FALSE,
     script_to_run |-> <<>>])

get_visible_script(a, index) ==
  IF index >= 0 /\ index < Len(a.visible_indices)
     /\ InStore(a, Nth(a.visible_indices, index))
  THEN <<Nth(a.scripts, Nth(a.visible_indices, index))>>
  ELSE <<>>

selected_script(a) == get_visible_script(a, a.selected)

\* Mutant: Args remembers the store index instead of the visible position.
enter_args_mode_store_index(a) ==
  IF a.selected < Len(a.visible_indices)
  THEN [a EXCEPT !.mode = ModeArgs(Nth(a.visible_indices, a.selected), <<>>)]
  ELSE a

enter_args_mode(a) ==
  IF a.selected < Len(a.visible_indices)
  THEN [a EXCEPT !.mode = ModeArgs(a.selected, <<>>)]
  ELSE a

toggle_multi_select(a) ==
  CASE a.mode.kind = "MultiSelect" -> [a EXCEPT !.mode = ModeNormal]
    [] a.mode.kind = "Normal" -> [a EXCEPT !.mode = ModeMultiSelect({})]
    [] OTHER -> a

toggle_help(a) ==
  IF a.mode.kind = "Help" THEN [a EXCEPT !.mode = ModeNormal]
  ELSE [a EXCEPT !.mode = ModeHelp]

\* Mutant: the projection is not recomputed after the store was replaced.
select_workspace_stale(a, index) ==
  LET b == IF index = 0
           THEN [a EXCEPT !.workspace_context = ContextRoot]
           ELSE IF index - 1 < Len(a.workspaces)
           THEN [a EXCEPT !.workspace_context = ContextWorkspace(index - 1),
                          !.scripts = Nth(a.workspaces, index - 1).scripts]
           ELSE a
  IN [b EXCEPT !.selected = 0, !.mode = ModeNormal]

\* ------------------------------------------------------------ workspaces
select_workspace(a, index) ==
  LET b == IF index = 0
           THEN [a EXCEPT !.workspace_context = ContextRoot]
           ELSE IF index - 1 < Len(a.workspaces)
           THEN [a EXCEPT !.workspace_context = ContextWorkspace(index - 1),
                          !.scripts = Nth(a.workspaces, index - 1).scripts]
           ELSE a
  IN update_visible_scripts([b EXCEPT !.selected = 0, !.mode = ModeNormal])

select_current_workspace(a) == select_workspace(a, a.workspace_selected)

back_to_workspace_select(a) ==
  IF a.is_monorepo THEN [a EXCEPT !.mode = ModeWorkspaceSelect] ELSE a

workspace_move_up(a) ==
  IF a.workspace_selected > 0
  THEN [a EXCEPT !.workspace_selected = a.workspace_selected - 1]
  ELSE a

workspace_move_down(a) ==
  IF a.workspace_selected < Len(a.workspaces)
  THEN [a EXCEPT !.workspace_selected = a.workspace_selected + 1]
  ELSE a

workspace_move_left(a) == workspace_move_up(a)

workspace_move_right(a) == workspace_move_down(a)

\* Mutant: the digit is taken as the zero-based selector index.
select_workspace_by_number_zero_based(a, num) ==
  IF num > 0 /\ num <= Len(a.workspaces) + 1
  THEN select_workspace(a, num)
  ELSE a

select_workspace_by_number(a, num) ==
  IF num > 0 /\ num <= Len(a.workspaces) + 1
  THEN select_workspace(a, num - 1)
  ELSE a

\* Mutant: the mode takes the new query, filter_text keeps the old one.
set_filter_mode_only(a, text) ==
  update_visible_scripts([a EXCEPT !.mode = ModeFilter(text)])

\* ------------------------------------------------------------ filter, sort
set_filter(a, text) ==
  update_visible_scripts([a EXCEPT !.filter_text = text,
                                   !.mode = ModeFilter(text)])

\* Mutant: the filter text is cleared without recomputing the projection.
clear_filter_stale(a) == [a EXCEPT !.filter_text = <<>>]

\* Mutant: the projection is recomputed but the filter text stays.
clear_filter_keeps_text(a) == update_visible_scripts(a)

clear_filter(a) == update_visible_scripts([a EXCEPT !.filter_text = <<>>])

set_sort_mode(a, mode) ==
  update_visible_scripts([a EXCEPT !.sort_mode = mode])

\* Mutant: the cycle runs the other way round.
cycle_sort_mode_backwards(a) ==
  update_visible_scripts(
    [a EXCEPT !.sort_mode = CASE a.sort_mode = "Recent" -> "Category"
                              [] a.sort_mode = "Alpha" -> "Recent"
                              [] a.sort_mode = "Category" -> "Alpha"])

cycle_sort_mode(a) ==
  update_visible_scripts(
    [a EXCEPT !.sort_mode = CASE a.sort_mode = "Recent" -> "Alpha"
                              [] a.sort_mode = "Alpha" -> "Category"
                              [] a.sort_mode = "Category" -> "Recent"])

calculate_columns(width) ==
  IF width < 60 THEN 1
  ELSE IF width < 90 THEN 2
  ELSE IF width < 120 THEN 3
  ELSE IF width < 160 THEN 4
  ELSE 5

update_columns(a, width) == [a EXCEPT !.columns = calculate_columns(width)]


\* ------------------------------------------------------------ navigation
row_count(a) ==
  LET count == Len(a.visible_indices)
  IN IF count = 0 \/ a.columns = 0 THEN 0
     ELSE (count + a.columns - 1) \div a.columns

current_row(a) == a.selected \div a.columns

current_col(a) == a.selected % a.columns

\* Mutant: the selection moves up by one item instead of one row.
move_up_by_one_item(a) ==
  IF a.visible_indices = <<>> \/ a.columns = 0 THEN a
  ELSE IF current_row(a) > 0
  THEN [a EXCEPT !.selected = a.selected - 1]
  ELSE a

move_up(a) ==
  IF a.visible_indices = <<>> \/ a.columns = 0 THEN a
  ELSE LET new_index == (current_row(a) - 1) * a.columns + current_col(a)
       IN IF current_row(a) > 0 /\ new_index < Len(a.visible_indices)
          THEN [a EXCEPT !.selected = new_index]
          ELSE a

\* Mutant: a missing column in the next row stops the move.
move_down_no_jump(a) ==
  IF a.visible_indices = <<>> \/ a.columns = 0 THEN a
  ELSE LET new_index == (current_row(a) + 1) * a.columns + current_col(a)
       IN IF new_index < Len(a.visible_indices)
          THEN [a EXCEPT !.selected = new_index]
          ELSE a

move_down(a) ==
  IF a.visible_indices = <<>> \/ a.columns = 0 THEN a
  ELSE LET new_index == (current_row(a) + 1) * a.columns + current_col(a)
           last_row == saturating_sub(row_count(a), 1)
       IN IF new_index < Len(a.visible_indices)
          THEN [a EXCEPT !.selected = new_index]
          ELSE IF current_row(a) < last_row
          THEN [a EXCEPT !.selected =
                           saturating_sub(Len(a.visible_indices), 1)]
          ELSE a

\* Mutant: moving left from the first item wraps around to the last.
move_left_wrap(a) ==
  IF a.selected > 0 THEN [a EXCEPT !.selected = a.selected - 1]
  ELSE [a EXCEPT !.selected = saturating_sub(Len(a.visible_indices), 1)]

move_left(a) ==
  IF a.selected > 0 THEN [a EXCEPT !.selected = a.selected - 1] ELSE a

move_right(a) ==
  IF a.selected < saturating_sub(Len(a.visible_indices), 1)
  THEN [a EXCEPT !.selected = a.selected + 1]
  ELSE a

move_to_first(a) == [a EXCEPT !.selected = 0]

move_to_last(a) ==
  [a EXCEPT !.selected = saturating_sub(Len(a.visible_indices), 1)]

\* Mutant: quit does not ask the loop to end.
quit_nothing(a) == a

\* ------------------------------------------------------------ actions
quit(a) == [a EXCEPT !.should_quit = TRUE]

get_workspace_info(a) ==
  IF a.workspace_context.kind = "Root" THEN <<>>
  ELSE IF a.workspace_context.index < Len(a.workspaces)
  THEN <<Nth(a.workspaces, a.workspace_context.index).name>>
  ELSE <<>>

\* run_selected / run_with_args / run_numbered / run_multi_selected: the
\* new App; the Vec or Option they return is `*_runs`.
run_with_args_runs(a, args) ==
  IF selected_script(a) # <<>>
  THEN <<ScriptRun(selected_script(a)[1],
                   IF args = <<>> THEN <<>> ELSE <<args>>,
                   get_workspace_info(a))>>
  ELSE <<>>

\* Mutant: an empty argument string is stored as Some("") instead of None.
run_with_args_keeps_empty(a, args) ==
  IF selected_script(a) # <<>>
  THEN [a EXCEPT !.script_to_run =
                   <<ScriptRun(selected_script(a)[1], <<args>>,
                               get_workspace_info(a))>>,
                 !.should_quit = TRUE]
  ELSE a

run_with_args(a, args) ==
  IF run_with_args_runs(a, args) # <<>>
  THEN [a EXCEPT !.script_to_run = run_with_args_runs(a, args),
                 !.should_quit = TRUE]
  ELSE a

run_selected_runs(a) ==
  IF selected_script(a) # <<>>
  THEN <<ScriptRun(selected_script(a)[1], <<>>, get_workspace_info(a))>>
  ELSE <<>>

\* Mutant: the run is stored but the loop is not asked to end.
run_selected_no_quit(a) ==
  IF run_selected_runs(a) # <<>>
  THEN [a EXCEPT !.script_to_run = run_selected_runs(a)]
  ELSE a

run_selected(a) ==
  IF run_selected_runs(a) # <<>>
  THEN [a EXCEPT !.script_to_run = run_selected_runs(a),
                 !.should_quit = TRUE]
  ELSE a

\* Mutant: the number is used as the position without the shift to 0-based.
run_numbered_off_by_one(a, num) ==
  IF num > 0 /\ num <= Len(a.visible_indices)
  THEN run_selected([a EXCEPT !.selected = num])
  ELSE a

\* Mutant: the position is selected (select_by_number) but nothing is run.
run_numbered_select_only(a, num) ==
  IF num > 0 /\ num <= Len(a.visible_indices)
  THEN [a EXCEPT !.selected = num - 1]
  ELSE a

run_numbered(a, num) ==
  IF num > 0 /\ num <= Len(a.visible_indices)
  THEN run_selected([a EXCEPT !.selected = num - 1])
  ELSE a

run_numbered_runs(a, num) ==
  IF num > 0 /\ num <= Len(a.visible_indices)
  THEN run_selected_runs([a EXCEPT !.selected = num - 1])
  ELSE <<>>

toggle_current_selection(a) ==
  IF a.mode.kind = "MultiSelect"
  THEN [a EXCEPT !.mode.selected =
          IF a.selected \in a.mode.selected
          THEN a.mode.selected \ {a.selected}
          ELSE a.mode.selected \cup {a.selected}]
  ELSE a

\* The orders in which a HashSet may hand out its elements.
IterationOrders(set) ==
  {f \in [1..Cardinality(set) -> set] :
     \A i, j \in 1..Cardinality(set) : i # j => f[i] # f[j]}

\* `order` is the iteration order of the HashSet of the mode.
run_multi_selected_runs(a, order) ==
  IF a.mode.kind = "MultiSelect"
  THEN flatten([k \in 1..Len(order) |->
         IF get_visible_script(a, order[k]) # <<>>
         THEN <<ScriptRun(get_visible_script(a, order[k])[1], <<>>,
                          get_workspace_info(a))>>
         ELSE <<>>])
  ELSE <<>>

\* Mutant: the last materialised run is stored instead of the first.
run_multi_selected_last(a, order) ==
  LET runs == run_multi_selected_runs(a, order)
  IN IF runs # <<>>
     THEN [a EXCEPT !.script_to_run = <<runs[Len(runs)]>>,
                    !.should_quit = TRUE]
     ELSE a

run_multi_selected(a, order) ==
  LET runs == run_multi_selected_runs(a, order)
  IN IF runs # <<>>
     THEN [a EXCEPT !.script_to_run = <<runs[1]>>, !.should_quit = TRUE]
     ELSE a


\* ------------------------------------------------------------ key events
Key(code) == [code |-> code, ch |-> "", ctrl |-> FALSE]
Char(c) == [code |-> "Char", ch |-> c, ctrl |-> FALSE]
CtrlC == [code |-> "Char", ch |-> "c", ctrl |-> TRUE]

IsChar(key, c) == key.code = "Char" /\ key.ch = c

IsQuickSelect(key) == key.code = "Char" /\ key.ch \in Digits19

is_ctrl_c(key) == key.code = "Char" /\ key.ch = "c" /\ key.ctrl

handle_normal_mode(a, key) ==
  CASE key.code = "Up" \/ IsChar(key, "k") -> move_up(a)
    [] key.code = "Down" \/ IsChar(key, "j") -> move_down(a)
    [] key.code = "Left" \/ IsChar(key, "h") -> move_left(a)
    [] key.code = "Right" \/ IsChar(key, "l") -> move_right(a)
    [] key.code = "Home" \/ IsChar(key, "g") -> move_to_first(a)
    [] key.code = "End" \/ IsChar(key, "G") -> move_to_last(a)
    [] key.code = "Enter" \/ IsChar(key, "o") -> run_selected(a)
    [] IsQuickSelect(key) -> run_numbered(a, DigitValue(key.ch))
    [] IsChar(key, "/") -> set_mode(a, ModeFilter(<<>>))
    [] IsChar(key, "s") -> cycle_sort_mode(a)
    [] IsChar(key, "a") -> enter_args_mode(a)
    [] IsChar(key, "m") -> toggle_multi_select(a)
    [] IsChar(key, "?") -> toggle_help(a)
    [] IsChar(key, "q") -> quit(a)
    [] IsChar(key, "w") /\ a.is_monorepo -> back_to_workspace_select(a)
    [] OTHER -> a

handle_workspace_select_mode(a, key) ==
  CASE key.code = "Up" \/ IsChar(key, "k") -> workspace_move_up(a)
    [] key.code = "Down" \/ IsChar(key, "j") -> workspace_move_down(a)
    [] key.code = "Left" \/ IsChar(key, "h") -> workspace_move_left(a)
    [] key.code = "Right" \/ IsChar(key, "l") -> workspace_move_right(a)
    [] key.code = "Enter" -> select_current_workspace(a)
    [] IsQuickSelect(key) -> select_workspace_by_number(a, DigitValue(key.ch))
    [] IsChar(key, "?") -> toggle_help(a)
    [] IsChar(key, "q") \/ key.code = "Esc" -> quit(a)
    [] OTHER -> a

pop(s) == IF s = <<>> THEN <<>> ELSE SubSeq(s, 1, Len(s) - 1)

handle_filter_mode(a, key, current_query) ==
  CASE key.code = "Esc" -> set_mode(clear_filter(a), ModeNormal)
    [] key.code = "Enter" -> run_selected(a)
    [] key.code = "Backspace" ->
         IF pop(current_query) = <<>>
         THEN set_mode(clear_filter(a), ModeNormal)
         ELSE set_filter(a, pop(current_query))
    [] key.code = "Up" -> move_up(a)
    [] key.code = "Down" -> move_down(a)
    [] key.code = "Left" -> move_left(a)
    [] key.code = "Right" -> move_right(a)
    [] key.code = "Char" ->
         IF key.ch \in Digits19 /\ current_query = <<>>
         THEN run_numbered(a, DigitValue(key.ch))
         ELSE set_filter(a, Append(current_query, key.ch))
    [] OTHER -> a

\* Mutant: only the keys of the first match arm close the help overlay.
handle_help_mode_listed_keys(a, key) ==
  IF key.code \in {"Esc", "Enter", "Char"} THEN set_mode(a, ModeNormal) ELSE a

\* Mutant: dismissing Help in a monorepo returns to the workspace selector.
handle_help_mode_to_selector(a, key) ==
  set_mode(a, IF a.is_monorepo THEN ModeWorkspaceSelect ELSE ModeNormal)

handle_help_mode(a, key) == set_mode(a, ModeNormal)

handle_error_mode(a, key) == set_mode(a, ModeNormal)

handle_multiselect_mode(a, key, current_selected, order) ==
  CASE key.code = "Esc" -> set_mode(a, ModeNormal)
    [] IsChar(key, " ") -> toggle_current_selection(a)
    [] key.code = "Enter" -> run_multi_selected(a, order)
    [] IsChar(key, "a") ->
         set_mode(a, ModeMultiSelect(
           current_selected \cup (0..(Len(a.visible_indices) - 1))))
    [] IsChar(key, "n") -> set_mode(a, ModeMultiSelect({}))
    [] key.code = "Up" \/ IsChar(key, "k") -> move_up(a)
    [] key.code = "Down" \/ IsChar(key, "j") -> move_down(a)
    [] key.code = "Left" \/ IsChar(key, "h") -> move_left(a)
    [] key.code = "Right" \/ IsChar(key, "l") -> move_right(a)
    [] key.code = "Home" \/ IsChar(key, "g") -> move_to_first(a)
    [] key.code = "End" \/ IsChar(key, "G") -> move_to_last(a)
    [] OTHER -> a

handle_args_mode(a, key, script_index, current_input) ==
  CASE key.code = "Esc" -> set_mode(a, ModeNormal)
    [] key.code = "Enter" -> run_with_args(a, current_input)
    [] key.code = "Backspace" ->
         set_mode(a, ModeArgs(script_index, pop(current_input)))
    [] key.code = "Char" ->
         set_mode(a, ModeArgs(script_index, Append(current_input, key.ch)))
    [] OTHER -> a

\* Mutant: Ctrl+C quits in the text modes as well.
handle_key_ctrl_c_everywhere(a, key, order) ==
  IF is_ctrl_c(key)
  THEN quit(a)
  ELSE CASE a.mode.kind = "Normal" -> handle_normal_mode(a, key)
         [] a.mode.kind = "Filter" -> handle_filter_mode(a, key, a.mode.query)
         [] a.mode.kind = "Help" -> handle_help_mode(a, key)
         [] a.mode.kind = "Error" -> handle_error_mode(a, key)
         [] a.mode.kind = "MultiSelect" ->
              handle_multiselect_mode(a, key, a.mode.selected, order)
         [] a.mode.kind = "Args" ->
              handle_args_mode(a, key, a.mode.script_index, a.mode.input)
         [] a.mode.kind = "WorkspaceSelect" ->
              handle_workspace_select_mode(a, key)

handle_key(a, key, order) ==
  IF is_ctrl_c(key) /\ a.mode.kind \notin {"Filter", "Args"}
  THEN quit(a)
  ELSE CASE a.mode.kind = "Normal" -> handle_normal_mode(a, key)
         [] a.mode.kind = "Filter" -> handle_filter_mode(a, key, a.mode.query)
         [] a.mode.kind = "Help" -> handle_help_mode(a, key)
         [] a.mode.kind = "Error" -> handle_error_mode(a, key)
         [] a.mode.kind = "MultiSelect" ->
              handle_multiselect_mode(a, key, a.mode.selected, order)
         [] a.mode.kind = "Args" ->
              handle_args_mode(a, key, a.mode.script_index, a.mode.input)
         [] a.mode.kind = "WorkspaceSelect" ->
              handle_workspace_select_mode(a, key)

\* What the run intent fired by `key`, if any, returned to the handler.
handle_key_runs(a, key, order) ==
  IF is_ctrl_c(key) /\ a.mode.kind \notin {"Filter", "Args"} THEN <<>>
  ELSE CASE a.mode.kind = "Normal"
              /\ (key.code = "Enter" \/ IsChar(key, "o")) ->
                run_selected_runs(a)
         [] a.mode.kind = "Normal" /\ IsQuickSelect(key) ->
                run_numbered_runs(a, DigitValue(key.ch))
         [] a.mode.kind = "Filter" /\ key.code = "Enter" ->
                run_selected_runs(a)
         [] a.mode.kind = "Filter" /\ IsQuickSelect(key)
              /\ a.mode.query = <<>> ->
                run_numbered_runs(a, DigitValue(key.ch))
         [] a.mode.kind = "MultiSelect" /\ key.code = "Enter" ->
                run_multi_selected_runs(a, order)
         [] a.mode.kind = "Args" /\ key.code = "Enter" ->
                run_with_args_runs(a, a.mode.input)
         [] OTHER -> <<>>

\* ------------------------------------------------------------ inputs
SpecialKeys ==
  {Key(c) : c \in {"Up", "Down", "Left", "Right", "Home", "End", "Enter",
                   "Esc", "Backspace", "Tab"}}

CommandChars ==
  {"k", "j", "G", "/", "s", "a", "m", "?", "q", "w", " ", "n",
   "0", "1", "3", "9"}

\* The keys pressed in mode `m`: every key outside the text modes, and in
\* Filter and Args the special keys and the typed characters, as long as
\* the buffer has room.
TextBuffer(m) == IF m.kind = "Filter" THEN m.query ELSE m.input

KeysFor(m) ==
  IF m.kind \in {"Filter", "Args"}
  THEN SpecialKeys \cup {CtrlC} \cup {Char(c) : c \in TypedChars}
  ELSE SpecialKeys \cup {CtrlC} \cup {Char(c) : c \in CommandChars \cup TypedChars}

HasRoom(m, key) ==
  (m.kind \in {"Filter", "Args"} /\ key.code = "Char")
    => Len(TextBuffer(m)) < (IF m.kind = "Filter" THEN MaxLen ELSE MaxArgsLen)

\* Only Enter iterates over the HashSet of the MultiSelect mode.
OrdersFor(m, key) ==
  IF m.kind = "MultiSelect" /\ key.code = "Enter"
  THEN IterationOrders(m.selected)
  ELSE {<<>>}


\* What a child process reports: Some(code), or None when a signal ended it.
ChildResults == {<<c>> : c \in ChildCodes} \cup {<<>>}

\* ------------------------------------------------------------ runner
Runners == {"Npm", "Yarn", "Pnpm", "Bun"}

\* Runner::run_command.
run_command(runner, script) ==
  CASE runner = "Npm"  -> <<<<"n","p","m">>, <<"r","u","n">>, script>>
    [] runner = "Yarn" -> <<<<"y","a","r","n">>, script>>
    [] runner = "Pnpm" -> <<<<"p","n","p","m">>, script>>
    [] runner = "Bun"  -> <<<<"b","u","n">>, <<"r","u","n">>, script>>

\* Mutant: the separator is pushed for every runner.
run_command_with_args_always_separated(runner, script, args) ==
  IF args # <<>>
  THEN run_command(runner, script) \o <<<<"-","-">>>> \o args
  ELSE run_command(runner, script)

\* Runner::run_command_with_args.
run_command_with_args(runner, script, args) ==
  IF args # <<>>
  THEN run_command(runner, script)
         \o (IF runner \in {"Npm", "Pnpm"} THEN <<<<"-","-">>>> ELSE <<>>)
         \o args
  ELSE run_command(runner, script)

\* str::split_whitespace: the maximal runs of non-space characters.
RECURSIVE split_whitespace(_)
split_whitespace(s) ==
  IF s = <<>> THEN <<>>
  ELSE IF Head(s) = " " THEN split_whitespace(Tail(s))
  ELSE LET rest == split_whitespace(Tail(s))
       IN IF Len(s) >= 2 /\ s[2] # " "
          THEN <<<<Head(s)>> \o Head(rest)>> \o Tail(rest)
          ELSE <<<<Head(s)>>>> \o rest

\* main.rs run: the argv execute_script spawns for a ScriptRun.
argv(runner, script_run) ==
  run_command_with_args(
    runner, script_run.script.name,
    IF script_run.args = <<>> THEN <<>>
    ELSE split_whitespace(script_run.args[1]))

\* ------------------------------------------------------------ history storage
MaxCalls == 2

ProjectDirs == {"p", "q"}

ScriptNames == {"a", "b"}

\* Option<String>: no arguments, or some.
ArgsValues == {<<>>, <<"x">>}

\* max_projects and max_scripts.
Limits == {0, 1, 2}

\* A HashMap is a function; its keys are the function's domain.
EmptyMap == [k \in {} |-> k]

Put(m, k, v) == [x \in DOMAIN m \cup {k} |-> IF x = k THEN v ELSE m[x]]

Remove(m, keys) == [x \in DOMAIN m \ keys |-> m[x]]

\* The orders in which a HashMap with the keys S may be iterated.
Perms(S) ==
  {o \in [1..Cardinality(S) -> S] : \A i, j \in DOMAIN o : o[i] = o[j] => i = j}

ScriptHistory_new(now) == [count |-> 1, last_run |-> now, last_args |-> <<>>]

\* Mutant: a repeated run keeps the arguments recorded before.
script_record_run_keeps_args(h, args, now) ==
  [count |-> h.count + 1, last_run |-> now, last_args |-> h.last_args]

\* ScriptHistory::record_run.
script_record_run(h, args, now) ==
  [count |-> h.count + 1, last_run |-> now, last_args |-> args]

ProjectHistory_new(now) ==
  [last_script |-> <<>>, last_run |-> now, scripts |-> EmptyMap]

\* ProjectHistory::record_run: and_modify(record_run) / or_insert_with(new
\* with last_args).
project_record_run(project, script, args, now) ==
  [last_script |-> <<script>>,
   last_run |-> now,
   scripts |->
     Put(project.scripts, script,
         IF script \in DOMAIN project.scripts
         THEN script_record_run(project.scripts[script], args, now)
         ELSE [ScriptHistory_new(now) EXCEPT !.last_args = args])]

\* History::new: no projects.
History_new == EmptyMap

\* entry(project_dir).or_default()
get_or_create_project(history, project_dir, now) ==
  IF project_dir \in DOMAIN history THEN history
  ELSE Put(history, project_dir, ProjectHistory_new(now))

\* History::record_run.
record_run(history, project_dir, script, args, now) ==
  LET created == get_or_create_project(history, project_dir, now)
  IN Put(created, project_dir,
         project_record_run(created[project_dir], script, args, now))

\* Mutant: the newest entries are evicted.
evict_newest(m, max, order) ==
  IF Cardinality(DOMAIN m) <= max THEN m
  ELSE LET to_remove == Cardinality(DOMAIN m) - max
           pairs == [i \in 1..Len(order) |-> <<order[i], m[order[i]].last_run>>]
           sorted == sort_by("last_run", <<>>, pairs)
       IN Remove(m, {sorted[Len(sorted) + 1 - i][1] : i \in 1..to_remove})

\* The eviction both cleanups perform on their map: nothing when the map
\* is within the limit; otherwise the entries, collected in the map's
\* iteration order, are sorted by last_run, oldest first, and the first
\* len - max of them removed.
evict(m, max, order) ==
  IF Cardinality(DOMAIN m) <= max THEN m
  ELSE LET to_remove == Cardinality(DOMAIN m) - max
           pairs == [i \in 1..Len(order) |-> <<order[i], m[order[i]].last_run>>]
           sorted == sort_by("last_run", <<>>, pairs)
       IN Remove(m, {sorted[i][1] : i \in 1..to_remove})

\* ProjectHistory::cleanup.
project_cleanup(project, max_scripts, order) ==
  [project EXCEPT !.scripts = evict(project.scripts, max_scripts, order)]

\* History::cleanup_with_limits.  orders.scripts[d] is the iteration order
\* of project d's scripts, orders.projects that of the projects.
cleanup_with_limits(history, max_projects, max_scripts, orders) ==
  LET cleaned == [d \in DOMAIN history |->
                    project_cleanup(history[d], max_scripts, orders.scripts[d])]
  IN evict(cleaned, max_projects, orders.projects)

\* The iteration orders the maps of `history` admit.
Orders(history) ==
  LET D == DOMAIN history
      AnyOrder == UNION {Perms(DOMAIN history[d].scripts) : d \in D}
  IN {[projects |-> po, scripts |-> so] :
        po \in Perms(D),
        so \in {f \in [D -> AnyOrder] :
                  \A d \in D : f[d] \in Perms(DOMAIN history[d].scripts)}}

\* The history file and its backup.  A file is missing, holds a saved
\* history (content), holds text that is no History (invalid_json), or
\* holds bytes that are no UTF-8 text (not_utf8).
FileMissing == [kind |-> "missing", content |-> History_new]

CorruptKinds == {"invalid_json", "not_utf8"}

\* History::load.  read_ok: fs::read_to_string succeeds on a readable
\* text; rename_ok: a backup path exists and fs::rename succeeds.
load(disk, read_ok, rename_ok) ==
  IF disk.file.kind = "missing"
  THEN [history |-> History_new, disk |-> disk]
  ELSE IF disk.file.kind = "not_utf8" \/ ~read_ok
  THEN [history |-> History_new, disk |-> disk]
  ELSE IF disk.file.kind = "valid"
  THEN [history |-> disk.file.content, disk |-> disk]
  ELSE [history |-> History_new,
        disk |-> IF rename_ok
                 THEN [file |-> FileMissing, bak |-> disk.file]
                 ELSE disk]

\* History::save: fs::write replaces whatever the path holds.
save(history, disk, write_ok) ==
  IF write_ok
  THEN [disk EXCEPT !.file = [kind |-> "valid", content |-> history]]
  ELSE disk

\* ------------------------------------------------------------ terminal
\* raw_flag is TERMINAL_RAW_MODE; raw_mode, alt_screen and cursor_hidden are
\* the state of the terminal itself; hook says that the panic hook is
\* installed; teardowns counts the restores performed (disable_raw_mode,
\* LeaveAlternateScreen, cursor::Show).
TerminalInit ==
  [raw_flag |-> FALSE, raw_mode |-> FALSE, alt_screen |-> FALSE,
   cursor_hidden |-> FALSE, hook |-> FALSE, teardowns |-> 0]

teardown_nothing(t) == t

\* The three restoring calls; their errors are discarded (`let _ = ...`).
teardown(t) ==
  [t EXCEPT !.raw_mode = FALSE, !.alt_screen = FALSE,
            !.cursor_hidden = FALSE, !.teardowns = t.teardowns + 1]

drop_guard_flag_only(t) == [t EXCEPT !.raw_flag = FALSE]

\* impl Drop for TerminalGuard.
drop_guard(t) == [teardown(t) EXCEPT !.raw_flag = FALSE]

\* The closure installed by setup_panic_hook.
panic_hook(t) == IF t.raw_flag THEN teardown(t) ELSE t

\* How the build treats a panic once the hook has run: it unwinds, which
\* drops the guard held by run_tui, or it aborts the process.
PanicStrategies == {"unwind", "abort"}

\* ------------------------------------------------------------ the program
\* main.rs run: App::new / App::with_workspaces, then run_tui.
\* The history storage before its first operation: an empty History in
\* memory, no file on disk.  base and log record the history the latest
\* other operation left and the record_run calls made since; overwritten
\* says that save has replaced a file that load had found corrupt and
\* left at its path.
StorageInit ==
  [history |-> History_new, now |-> 0, calls |-> 0,
   base |-> History_new, log |-> <<>>,
   disk |-> [file |-> FileMissing, bak |-> FileMissing],
   overwritten |-> FALSE, evicted |-> FALSE]

\* run_loop before its first iteration: phase is the statement the loop
\* is at (size: terminal.size and update_columns; draw: terminal.draw;
\* poll: event::poll; exit: the loop is left), frame the App the latest
\* draw has rendered, if any.
LoopInit == [phase |-> "size", frame |-> <<>>]

\* main.rs run, up to the call of run_tui.
Started(project, default_sort) ==
    /\ app = with_workspaces(project.scripts, default_sort, project.history,
                             project.workspaces)
    /\ root_scripts = project.scripts
    /\ pc = "start"
    /\ terminal = TerminalInit
    /\ scripts_to_run = <<>>
    /\ next_run = 0
    /\ spawned = <<>>
    /\ child_results = <<>>
    /\ exit_status = <<>>
    /\ committed = <<>>
    /\ prev_kind = "None"
    /\ prev_selected = 0
    /\ prev_sort_mode = default_sort
    /\ quit_key = Key("None")
    /\ rl = LoopInit

Init ==
  /\ \E project \in Projects, default_sort \in SortModes :
       Started(project, default_sort)
  /\ hs = StorageInit

Caller == <<scripts_to_run, next_run, spawned, exit_status, child_results>>

\* What the TUI leaves alone once run_tui is over or has not begun.
Session == <<app, committed, prev_kind, prev_selected, prev_sort_mode,
             quit_key, root_scripts>>

\* run_tui: TerminalGuard::new.  The hook is installed first; each of
\* enable_raw_mode, execute!(EnterAlternateScreen, Hide) and Terminal::new
\* may fail, and then no guard exists that would restore the terminal.
EnterTui ==
  /\ pc = "start"
  /\ \E failing \in {"none", "enable_raw_mode", "execute", "Terminal::new"} :
       LET hooked == [terminal EXCEPT !.hook = TRUE]
           raw == [hooked EXCEPT !.raw_mode = TRUE, !.raw_flag = TRUE]
       IN CASE failing = "enable_raw_mode" ->
                 /\ terminal' = hooked
                 /\ pc' = "done" /\ exit_status' = <<GENERAL_ERROR>>
            [] failing = "execute" ->
                 /\ \E entered, hidden \in BOOLEAN :
                      terminal' = [raw EXCEPT !.alt_screen = entered,
                                              !.cursor_hidden = hidden]
                 /\ pc' = "done" /\ exit_status' = <<GENERAL_ERROR>>
            [] failing = "Terminal::new" ->
                 /\ terminal' = [raw EXCEPT !.alt_screen = TRUE,
                                            !.cursor_hidden = TRUE]
                 /\ pc' = "done" /\ exit_status' = <<GENERAL_ERROR>>
            [] failing = "none" ->
                 /\ terminal' = [raw EXCEPT !.alt_screen = TRUE,
                                            !.cursor_hidden = TRUE]
                 /\ pc' = "tui" /\ exit_status' = exit_status
  /\ UNCHANGED <<hs, rl, child_results, Session, scripts_to_run, next_run, spawned>>

\* run_loop: one key event is read and dispatched (handle_event, handle_key).
Dispatch(kind) ==
  /\ pc = "tui"
  /\ ~app.should_quit
  /\ app.mode.kind = kind
  /\ \E key \in KeysFor(app.mode) :
     \E order \in OrdersFor(app.mode, key) :
       /\ HasRoom(app.mode, key)
       /\ app' = handle_key(app, key, order)
       /\ committed' = IF handle_key_runs(app, key, order) # <<>>
                       THEN handle_key_runs(app, key, order)
                       ELSE committed
       /\ quit_key' = IF app'.should_quit THEN key ELSE quit_key
  /\ prev_kind' = app.mode.kind
  /\ prev_selected' = app.selected
  /\ prev_sort_mode' = app.sort_mode
  /\ UNCHANGED <<hs, rl, pc, root_scripts, terminal, Caller>>

KeyNormal == Dispatch("Normal")
KeyFilter == Dispatch("Filter")
KeyMultiSelect == Dispatch("MultiSelect")
KeyHelp == Dispatch("Help")
KeyError == Dispatch("Error")
KeyArgs == Dispatch("Args")
KeyWorkspaceSelect == Dispatch("WorkspaceSelect")

\* run_loop / handle_event: the terminal reports its width (every loop
\* iteration reads it, and a resize event carries it).
Resize ==
  /\ pc = "tui"
  /\ ~app.should_quit
  /\ \E width \in Widths : app' = update_columns(app, width)
  /\ prev_kind' = app.mode.kind
  /\ prev_selected' = app.selected
  /\ prev_sort_mode' = app.sort_mode
  /\ UNCHANGED <<hs, rl, pc, root_scripts, terminal, committed, quit_key, Caller>>

\* App::set_mode(AppMode::Error { .. }): a recoverable condition is shown.
ShowError ==
  /\ pc = "tui"
  /\ ~app.should_quit
  /\ app.mode.kind = "Normal"
  /\ app' = set_mode(app, ModeError)
  /\ prev_kind' = app.mode.kind
  /\ prev_selected' = app.selected
  /\ prev_sort_mode' = app.sort_mode
  /\ UNCHANGED <<hs, rl, pc, root_scripts, terminal, committed, quit_key, Caller>>

\* run_loop returns Err: terminal.size, terminal.draw, event::poll or
\* event::read failed.  run_tui drops the guard and returns the error,
\* main exits with GENERAL_ERROR.
LoopError ==
  /\ pc = "tui"
  /\ ~app.should_quit
  /\ terminal' = drop_guard(terminal)
  /\ pc' = "done"
  /\ exit_status' = <<GENERAL_ERROR>>
  /\ UNCHANGED <<hs, rl, child_results, Session, scripts_to_run, next_run, spawned>>

\* A panic inside run_loop: the hook runs, then the build's panic strategy
\* decides whether the guard is dropped.  The process ends with 101.
Panic ==
  /\ pc = "tui"
  /\ ~app.should_quit
  /\ \E strategy \in PanicStrategies :
       terminal' = IF strategy = "unwind"
                   THEN drop_guard(panic_hook(terminal))
                   ELSE panic_hook(terminal)
  /\ pc' = "panicked"
  /\ exit_status' = <<101>>
  /\ UNCHANGED <<hs, rl, child_results, Session, scripts_to_run, next_run, spawned>>

\* run_tui returns: the loop has ended, the guard is dropped and
\* script_to_run becomes the Vec.
ReturnFromTui ==
  /\ pc = "tui"
  /\ app.should_quit
  /\ terminal' = drop_guard(terminal)
  /\ scripts_to_run' = app.script_to_run
  /\ IF app.script_to_run = <<>>
     THEN pc' = "done" /\ exit_status' = <<0>>
     ELSE pc' = "exec" /\ exit_status' = exit_status
  /\ UNCHANGED <<hs, rl, child_results, app, next_run, spawned, committed, prev_kind, prev_selected,
                 prev_sort_mode, quit_key, root_scripts>>

\* main.rs run: one iteration of the loop over scripts_to_run.
SpawnNext ==
  /\ pc = "exec"
  /\ next_run < Len(scripts_to_run)
  /\ \E result \in ChildResults :
       LET code == IF result = <<>> THEN 0 ELSE result[1]
       IN /\ spawned' = Append(spawned, Nth(scripts_to_run, next_run))
          /\ child_results' = Append(child_results, result)
          /\ IF code # 0
             THEN /\ pc' = "done"
                  /\ exit_status' = <<code>>
                  /\ next_run' = next_run
             ELSE /\ pc' = pc
                  /\ exit_status' = exit_status
                  /\ next_run' = next_run + 1
  /\ UNCHANGED <<hs, rl, Session, scripts_to_run, terminal>>

\* main.rs run: the loop is through, Ok(SUCCESS).
Finish ==
  /\ pc = "exec"
  /\ next_run = Len(scripts_to_run)
  /\ pc' = "done"
  /\ exit_status' = <<0>>
  /\ UNCHANGED <<hs, rl, child_results, Session, scripts_to_run, next_run, spawned, terminal>>

Next ==
  \/ EnterTui
  \/ KeyNormal
  \/ KeyFilter
  \/ KeyMultiSelect
  \/ KeyHelp
  \/ KeyError
  \/ KeyArgs
  \/ KeyWorkspaceSelect
  \/ Resize
  \/ ShowError
  \/ LoopError
  \/ Panic
  \/ ReturnFromTui
  \/ SpawnNext
  \/ Finish

Spec == Init /\ [][Next]_vars

\* ------------------------------------------------------------ the event loop
\* run_loop statement by statement.  Within Spec an iteration is one step
\* (Dispatch, Resize); here the frames are steps of their own.
Around == <<pc, scripts_to_run, next_run, spawned, exit_status, committed,
            prev_kind, prev_selected, prev_sort_mode, quit_key, root_scripts,
            terminal, hs, child_results>>

\* Mutant: the loop goes on although should_quit is set.
after_poll_no_break(a) == "size"

\* `if handle_event(app, event)? { break }` and
\* `if app.should_quit() { break }`: where the loop goes after the poll.
after_poll(a) == IF a.should_quit THEN "exit" ELSE "size"

\* let size = terminal.size()?; app.update_columns(size.width);
LoopSize ==
  /\ pc = "tui"
  /\ rl.phase = "size"
  /\ \E width \in Widths : app' = update_columns(app, width)
  /\ rl' = [rl EXCEPT !.phase = "draw"]
  /\ UNCHANGED Around

\* terminal.draw(|frame| render(frame, app, &theme, blink_state))?;
LoopDraw ==
  /\ pc = "tui"
  /\ rl.phase = "draw"
  /\ rl' = [phase |-> "poll", frame |-> <<app>>]
  /\ UNCHANGED <<app, Around>>

\* event::poll is true: event::read, handle_event, then the two breaks.
LoopEvent ==
  /\ pc = "tui"
  /\ rl.phase = "poll"
  /\ \/ \E key \in KeysFor(app.mode) :
        \E order \in OrdersFor(app.mode, key) :
          /\ HasRoom(app.mode, key)
          /\ app' = handle_key(app, key, order)
     \/ \E width \in Widths : app' = update_columns(app, width)
  /\ rl' = [rl EXCEPT !.phase = after_poll(app')]
  /\ UNCHANGED Around

\* event::poll is false after 50 ms: only `if app.should_quit() { break }`.
LoopTimeout ==
  /\ pc = "tui"
  /\ rl.phase = "poll"
  /\ rl' = [rl EXCEPT !.phase = after_poll(app)]
  /\ UNCHANGED <<app, Around>>

NextLoop ==
  \/ EnterTui
  \/ LoopSize
  \/ LoopDraw
  \/ LoopEvent
  \/ LoopTimeout

\* The loop is followed under the default configuration (default_sort is
\* Recent).
InitLoop ==
  /\ \E project \in Projects : Started(project, "Recent")
  /\ hs = StorageInit

SpecLoop == InitLoop /\ [][NextLoop]_vars

\* ------------------------------------------------------------ the storage
\* The operations of the history storage, called in any order on one
\* History and one history file.
Program == <<app, pc, scripts_to_run, next_run, spawned, exit_status,
             committed, prev_kind, prev_selected, prev_sort_mode, quit_key,
             root_scripts, terminal, rl, child_results>>

InitHistory ==
  /\ Started([scripts |-> <<>>, workspaces |-> <<>>, history |-> HistoryNone],
             "Recent")
  /\ hs = StorageInit

\* Utc::now() at a call: the time of the call before, or later.
Elapsed == {0, 1}

\* History::record_run(project_dir, script, args).
RecordRun ==
  /\ hs.calls < MaxCalls
  /\ \E project_dir \in ProjectDirs, script \in ScriptNames,
        args \in ArgsValues, elapsed \in Elapsed :
       hs' = [hs EXCEPT
                !.history = record_run(hs.history, project_dir, script, args,
                                       hs.now + elapsed),
                !.now = hs.now + elapsed,
                !.calls = hs.calls + 1,
                !.log = Append(hs.log, <<project_dir, script, args>>),
                !.evicted = FALSE]
  /\ UNCHANGED Program

\* History::cleanup_with_limits(max_projects, max_scripts).
Cleanup ==
  /\ \E cleaned \in {cleanup_with_limits(hs.history, max_projects,
                                          max_scripts, orders) :
                        max_projects \in Limits, max_scripts \in Limits,
                        orders \in Orders(hs.history)} :
       hs' = [hs EXCEPT !.history = cleaned,
                        !.base = cleaned,
                        !.log = <<>>,
                        !.evicted = (cleaned # hs.history)]
  /\ UNCHANGED Program

NextHistory ==
  \/ RecordRun
  \/ Cleanup

SpecHistory == InitHistory /\ [][NextHistory]_vars

\* ------------------------------------------------------------ the history file
\* The program's use of the history file, run after run.

\* Something other than this program leaves a file that is no history at
\* the history path.
CorruptFile ==
  /\ \E kind \in CorruptKinds :
       /\ hs.disk.file.kind # kind
       /\ hs' = [hs EXCEPT
                   !.disk.file = [kind |-> kind, content |-> History_new]]
  /\ UNCHANGED Program

\* main.rs run: History::load().unwrap_or_default() before the TUI starts.
LoadAtStart ==
  /\ \E read_ok \in BOOLEAN, rename_ok \in BOOLEAN :
       LET loaded == load(hs.disk, read_ok, rename_ok)
       IN hs' = [hs EXCEPT
                   !.history = loaded.history,
                   !.disk = loaded.disk,
                   !.base = loaded.history,
                   !.log = <<>>,
                   !.evicted = FALSE]
  /\ UNCHANGED Program

\* main.rs run, before a script is executed: load, record_run, and
\* `let _ = history.save()`.
RecordAndSave ==
  /\ hs.calls < MaxCalls
  /\ \E project_dir \in ProjectDirs, script \in ScriptNames,
        args \in ArgsValues, elapsed \in Elapsed,
        read_ok \in BOOLEAN, rename_ok \in BOOLEAN, write_ok \in BOOLEAN :
       LET loaded == load(hs.disk, read_ok, rename_ok)
           history == record_run(loaded.history, project_dir, script, args,
                                 hs.now + elapsed)
       IN hs' = [hs EXCEPT
                   !.history = history,
                   !.now = hs.now + elapsed,
                   !.disk = save(history, loaded.disk, write_ok),
                   !.calls = hs.calls + 1,
                   !.base = history,
                   !.log = <<>>,
                   !.overwritten = \/ hs.overwritten
                                   \/ /\ write_ok
                                      /\ loaded.disk.file.kind \in CorruptKinds,
                   !.evicted = FALSE]
  /\ UNCHANGED Program

NextFile ==
  \/ CorruptFile
  \/ LoadAtStart
  \/ RecordAndSave

SpecFile == InitHistory /\ [][NextFile]_vars

\* ------------------------------------------------------------ types
TypeOK ==
  /\ pc \in {"start", "tui", "exec", "done", "panicked"}
  /\ terminal.teardowns \in 0..2
  /\ rl.phase \in {"size", "draw", "poll", "exit"}
  /\ hs.now \in 0..hs.calls
  /\ hs.calls \in 0..MaxCalls
  /\ DOMAIN hs.history \subseteq ProjectDirs
  /\ \A d \in DOMAIN hs.history :
       DOMAIN hs.history[d].scripts \subseteq ScriptNames
  /\ app.sort_mode \in SortModes
  /\ app.selected \in Nat
  /\ app.should_quit \in BOOLEAN
  /\ Len(app.script_to_run) <= 1


\* ============================================================ claims
Max(a, b) == IF a > b THEN a ELSE b

VisibleCount == Len(app.visible_indices)

InLoop == pc = "tui" /\ ~app.should_quit

IsPermutationOfStore(visible, scripts) ==
  /\ Len(visible) = Len(scripts)
  /\ Range(visible) = 0..(Len(scripts) - 1)

\* C1: after every input event (any key in any mode, or a resize)
\* 0 <= selected <= max(0, len(visible_indices) - 1), and selected = 0
\* whenever visible_indices is empty.
C1_SelectedInRange ==
  /\ app.selected >= 0
  /\ app.selected <= Max(0, VisibleCount - 1)
  /\ (app.visible_indices = <<>> => app.selected = 0)

\* A query that matches no script was typed: the projection is empty and
\* the selection sits at 0.
C1_Witness ==
  /\ prev_kind = "Filter"
  /\ app.mode.kind = "Filter"
  /\ app.filter_text # <<>>
  /\ app.scripts # <<>>
  /\ app.visible_indices = <<>>
  /\ app.selected = 0

\* C2: visible_indices holds no duplicate, and every element is an index
\* into the active script store.
C2_VisibleDistinctAndValid ==
  /\ \A i, j \in 1..VisibleCount :
       i # j => app.visible_indices[i] # app.visible_indices[j]
  /\ \A i \in 1..VisibleCount :
       app.visible_indices[i] >= 0 /\ app.visible_indices[i] < Len(app.scripts)

\* A workspace with fewer scripts than the root was selected and then
\* filtered and sorted.
C2_Witness ==
  /\ app.workspace_context.kind = "Workspace"
  /\ Len(app.scripts) < Len(root_scripts)
  /\ app.filter_text # <<>>
  /\ app.sort_mode = "Category"
  /\ VisibleCount >= 1

\* C3: whenever filter_text is empty, visible_indices is a permutation of
\* 0..len(scripts)-1 of the active store, under every sort mode.
C3_UnfilteredIsPermutation ==
  app.filter_text = <<>> =>
    IsPermutationOfStore(app.visible_indices, app.scripts)

\* The filter was left again and the history reorders the store.
C3_Witness ==
  /\ prev_kind = "Filter"
  /\ app.mode.kind = "Normal"
  /\ app.filter_text = <<>>
  /\ app.sort_mode = "Recent"
  /\ VisibleCount >= 2
  /\ app.visible_indices # [i \in 1..VisibleCount |-> i - 1]

\* The names of the scripts of a sequence of ScriptRun records.
RunNames(runs) == [i \in 1..Len(runs) |-> runs[i].script.name]

IsPrefix(s, t) == Len(s) <= Len(t) /\ s = SubSeq(t, 1, Len(s))

\* C4: when a multi-select batch of k >= 1 scripts is committed with Enter,
\* the caller spawns the k scripts one after another and stops at the first
\* one that exits non-zero; when every child exits 0, exactly k spawns
\* occur.  `committed` is the batch run_multi_selected returned.
C4_BatchSpawnedInSequence ==
  (pc = "done" /\ prev_kind = "MultiSelect" /\ committed # <<>>) =>
    /\ IsPrefix(RunNames(spawned), RunNames(committed))
    /\ (exit_status = <<0>> => Len(spawned) = Len(committed))

\* C5: after any sequence of workspace selections, selecting index 0 leaves
\* the root manifest's scripts as the active store with context Root, and
\* selecting index k > 0 makes workspace k-1's scripts the active store with
\* context Workspace(k-1).
C5_SelectionSetsStoreAndContext ==
  (InLoop /\ app.mode.kind = "WorkspaceSelect") =>
    \A index \in 0..Len(app.workspaces) :
      LET b == select_workspace(app, index)
      IN IF index = 0
         THEN b.scripts = root_scripts /\ b.workspace_context = ContextRoot
         ELSE /\ b.scripts = Nth(app.workspaces, index - 1).scripts
              /\ b.workspace_context = ContextWorkspace(index - 1)

\* C6: Ctrl+C sets should_quit in every mode except Filter and Args; in
\* Filter and Args it never sets should_quit and is handled as the
\* printable character c appended to the text buffer.
C6_CtrlCQuitsOutsideTextModes ==
  InLoop =>
    LET b == handle_key(app, CtrlC, <<>>)
    IN CASE app.mode.kind = "Filter" ->
              /\ ~b.should_quit
              /\ b.mode = ModeFilter(Append(app.mode.query, "c"))
              /\ b.filter_text = Append(app.mode.query, "c")
         [] app.mode.kind = "Args" ->
              /\ ~b.should_quit
              /\ b.mode = ModeArgs(app.mode.script_index,
                                   Append(app.mode.input, "c"))
         [] OTHER -> b.should_quit

\* Ctrl+C was pressed in Filter mode (no other key of the model types a
\* "c"): the query ends in c and the loop goes on.
C6_Witness ==
  /\ InLoop
  /\ prev_kind = "Filter"
  /\ app.mode.kind = "Filter"
  /\ app.mode.query # <<>>
  /\ app.mode.query[Len(app.mode.query)] = "c"
  /\ app.filter_text = app.mode.query

\* C7 as claimed: in Help mode and in Error mode, any key event sets the
\* mode to Normal.
C7_AnyKeyClosesOverlay ==
  (InLoop /\ app.mode.kind \in {"Help", "Error"}) =>
    \A key \in KeysFor(app.mode) :
      handle_key(app, key, <<>>).mode = ModeNormal

\* C7 as amended: in Help mode and in Error mode, any key event other than
\* Ctrl+C sets the mode to Normal and changes nothing else; Ctrl+C sets
\* should_quit and leaves the mode as it is.
C7_KeyClosesOverlayExceptCtrlC ==
  (InLoop /\ app.mode.kind \in {"Help", "Error"}) =>
    \A key \in KeysFor(app.mode) :
      handle_key(app, key, <<>>) =
        IF is_ctrl_c(key) THEN [app EXCEPT !.should_quit = TRUE]
        ELSE [app EXCEPT !.mode = ModeNormal]

\* A key was pressed while the help overlay was shown.
C7_Witness ==
  /\ InLoop
  /\ prev_kind = "Help"
  /\ app.mode = ModeNormal

\* The indices of the scripts that `query` matches.
MatchSet(query, scripts, search_descriptions) ==
  {i \in 0..(Len(scripts) - 1) :
     filter_entry(to_lowercase(query), scripts, search_descriptions, i) # <<>>}

\* C8: in Filter(q), Esc yields Normal with filter_text = "" and
\* visible_indices covering all scripts; Backspace yields Normal with
\* filter_text cleared when q has one character, and Filter(q without its
\* last character) with filter_text and visible_indices updated to match
\* when q has two or more characters.
C8_FilterEscAndBackspace ==
  (InLoop /\ app.mode.kind = "Filter") =>
    LET q == app.mode.query
        e == handle_key(app, Key("Esc"), <<>>)
        b == handle_key(app, Key("Backspace"), <<>>)
        shorter == SubSeq(q, 1, Len(q) - 1)
    IN /\ e.mode = ModeNormal
       /\ e.filter_text = <<>>
       /\ IsPermutationOfStore(e.visible_indices, app.scripts)
       /\ Len(q) = 1 =>
            /\ b.mode = ModeNormal
            /\ b.filter_text = <<>>
            /\ IsPermutationOfStore(b.visible_indices, app.scripts)
       /\ Len(q) >= 2 =>
            /\ b.mode = ModeFilter(shorter)
            /\ b.filter_text = shorter
            /\ Len(b.visible_indices) = Cardinality(Range(b.visible_indices))
            /\ Range(b.visible_indices) =
                 MatchSet(shorter, app.scripts, app.search_descriptions)

\* Filter mode was left for Normal (Esc, or Backspace on the last
\* character) and every script of a non-empty store is visible again.
C8_Witness ==
  /\ InLoop
  /\ prev_kind = "Filter"
  /\ app.mode = ModeNormal
  /\ app.filter_text = <<>>
  /\ app.scripts # <<>>
  /\ IsPermutationOfStore(app.visible_indices, app.scripts)

\* C9: in Filter mode with an empty query a digit key 1-9 is never appended
\* to the query but fires run-numbered (select and run the k-th visible
\* script when k <= n, otherwise no state change); every other printable
\* character c in Filter(q) yields Filter(q + c).
C9_FilterCharKeys ==
  (InLoop /\ app.mode.kind = "Filter") =>
    \A c \in Alphabet :
      LET q == app.mode.query
          k == DigitValue(c)
          b == handle_key(app, Char(c), <<>>)
      IN IF c \in Digits19 /\ q = <<>>
         THEN IF k <= VisibleCount
              THEN /\ b.mode = ModeFilter(<<>>)
                   /\ b.selected = k - 1
                   /\ b.should_quit
                   /\ b.script_to_run =
                        <<ScriptRun(
                            Nth(app.scripts, Nth(app.visible_indices, k - 1)),
                            <<>>, get_workspace_info(app))>>
              ELSE b = app
         ELSE /\ b.mode = ModeFilter(Append(q, c))
              /\ b.filter_text = Append(q, c)
              /\ ~b.should_quit

\* A digit was pressed in Filter mode with an empty query and ended the
\* loop with a run intent.
C9_Witness ==
  /\ prev_kind = "Filter"
  /\ quit_key.code = "Char"
  /\ quit_key.ch \in Digits19
  /\ app.mode = ModeFilter(<<>>)
  /\ app.should_quit
  /\ app.selected = DigitValue(quit_key.ch) - 1
  /\ app.script_to_run # <<>>

\* C10 as claimed: in Normal mode, pressing `a` puts the app in
\* Args(selected, "").
C10_NormalAEntersArgs ==
  (InLoop /\ app.mode.kind = "Normal") =>
    handle_key(app, Char("a"), <<>>).mode = ModeArgs(app.selected, <<>>)

\* C10 as amended: in Normal mode with at least one visible script,
\* pressing `a` puts the app in Args(selected, "") and changes nothing
\* else; with no visible script `a` changes nothing.
C10_NormalAEntersArgsIfSelectable ==
  (InLoop /\ app.mode.kind = "Normal") =>
    handle_key(app, Char("a"), <<>>) =
      IF VisibleCount > 0
      THEN [app EXCEPT !.mode = ModeArgs(app.selected, <<>>)]
      ELSE app

\* `a` was pressed in Normal mode on a script other than the first.
C10_Witness ==
  /\ InLoop
  /\ prev_kind = "Normal"
  /\ app.mode.kind = "Args"
  /\ app.mode.input = <<>>
  /\ app.selected >= 1
  /\ app.mode.script_index = app.selected

\* C11: in Args(i, inp), Enter fires a run intent for the script at visible
\* position i (the script that was selected when Args mode was entered)
\* with args = inp, or args = None when inp is empty, and sets should_quit;
\* Esc returns to Normal setting neither should_quit nor script_to_run.
C11_ArgsEnterAndEsc ==
  (InLoop /\ app.mode.kind = "Args") =>
    LET i == app.mode.script_index
        inp == app.mode.input
        e == handle_key(app, Key("Enter"), <<>>)
        x == handle_key(app, Key("Esc"), <<>>)
    IN /\ i < VisibleCount
       /\ e.should_quit
       /\ e.script_to_run =
            <<ScriptRun(Nth(app.scripts, Nth(app.visible_indices, i)),
                        IF inp = <<>> THEN <<>> ELSE <<inp>>,
                        get_workspace_info(app))>>
       /\ handle_key_runs(app, Key("Enter"), <<>>) = e.script_to_run
       /\ x.mode = ModeNormal
       /\ ~x.should_quit
       /\ x.script_to_run = <<>>

\* Enter was pressed in Args mode on a script other than the first, with
\* arguments typed.
C11_Witness ==
  /\ prev_kind = "Args"
  /\ quit_key = Key("Enter")
  /\ app.mode.kind = "Args"
  /\ app.mode.script_index >= 1
  /\ app.mode.input # <<>>
  /\ app.should_quit
  /\ app.script_to_run # <<>>
  /\ app.script_to_run[1].args = <<app.mode.input>>

\* C12: whenever mode is MultiSelect(s), every index in s lies in
\* [0, len(visible_indices)).
C12_MultiSelectIndicesVisible ==
  app.mode.kind = "MultiSelect" =>
    \A i \in app.mode.selected : i >= 0 /\ i < VisibleCount

\* C13: in MultiSelect(s), Space yields the symmetric difference of s and
\* {selected} (so pressing Space twice without moving restores s), `a`
\* yields exactly {0..visible_count-1}, and `n` yields the empty set; none
\* of these keys changes selected, visible_indices or should_quit.
C13_MultiSelectSpaceAllNone ==
  (InLoop /\ app.mode.kind = "MultiSelect") =>
    LET s == app.mode.selected
        space == handle_key(app, Char(" "), <<>>)
        twice == handle_key(space, Char(" "), <<>>)
        all == handle_key(app, Char("a"), <<>>)
        none == handle_key(app, Char("n"), <<>>)
    IN /\ space = [app EXCEPT !.mode = ModeMultiSelect(
                      (s \ {app.selected}) \cup ({app.selected} \ s))]
       /\ twice = app
       /\ all = [app EXCEPT !.mode = ModeMultiSelect(0..(VisibleCount - 1))]
       /\ none = [app EXCEPT !.mode = ModeMultiSelect({})]

\* The script at visible position i of app `a`.
VisibleScript(a, i) == Nth(a.scripts, Nth(a.visible_indices, i))

\* C14: run_multi_selected (Enter in MultiSelect) returns exactly one
\* ScriptRun for each index of the multi-select set that is a valid
\* position in visible_indices, sets script_to_run to the first of them
\* and sets should_quit = true; when the set contains no such index it
\* changes neither script_to_run nor should_quit.
C14_RunMultiSelected ==
  (InLoop /\ app.mode.kind = "MultiSelect") =>
    \A order \in IterationOrders(app.mode.selected) :
      LET IsValid(i) == i >= 0 /\ i < VisibleCount
          valid == SelectSeq(order, IsValid)
          runs == handle_key_runs(app, Key("Enter"), order)
          b == handle_key(app, Key("Enter"), order)
      IN /\ runs = [k \in 1..Len(valid) |->
                      ScriptRun(VisibleScript(app, valid[k]), <<>>,
                                get_workspace_info(app))]
         /\ Len(runs) =
              Cardinality({i \in app.mode.selected : IsValid(i)})
         /\ IF runs # <<>>
            THEN b = [app EXCEPT !.script_to_run = <<runs[1]>>,
                                 !.should_quit = TRUE]
            ELSE b = app

\* Enter committed a multi-select set of at least two scripts, handed out
\* in an order other than the ascending one.
C14_Witness ==
  /\ prev_kind = "MultiSelect"
  /\ quit_key = Key("Enter")
  /\ app.should_quit
  /\ Len(committed) >= 2
  /\ Len(committed) = Cardinality(app.mode.selected)
  /\ app.script_to_run = <<committed[1]>>
  /\ \E i \in app.mode.selected :
       /\ \E j \in app.mode.selected : j < i
       /\ committed[1].script = VisibleScript(app, i)

\* Every key event, typed or not by the model's user.
AllKeys == SpecialKeys \cup {CtrlC} \cup {Char(c) : c \in Alphabet}

\* The keys whose handler calls run_selected, run_numbered, run_with_args
\* or run_multi_selected in mode `m`.
IsRunIntent(m, key) ==
  \/ /\ m.kind = "Normal"
     /\ key.code = "Enter" \/ IsChar(key, "o") \/ IsQuickSelect(key)
  \/ /\ m.kind = "Filter"
     /\ key.code = "Enter" \/ (IsQuickSelect(key) /\ m.query = <<>>)
  \/ m.kind \in {"MultiSelect", "Args"} /\ key.code = "Enter"

\* C15 as claimed: script_to_run is set only by a run intent, always
\* together with should_quit = true, and always to the script that is at
\* position selected of visible_indices at that moment; a run intent with
\* no selectable script changes neither script_to_run nor should_quit.
C15_RunIntentRunsSelected ==
  InLoop =>
    \A key \in AllKeys : \A order \in OrdersFor(app.mode, key) :
      LET b == handle_key(app, key, order)
      IN /\ b.script_to_run # app.script_to_run =>
              /\ IsRunIntent(app.mode, key)
              /\ b.should_quit
              /\ b.selected < Len(b.visible_indices)
              /\ b.script_to_run[1].script = VisibleScript(b, b.selected)
         /\ (IsRunIntent(app.mode, key) /\ VisibleCount = 0) =>
              /\ b.script_to_run = app.script_to_run
              /\ b.should_quit = app.should_quit

\* C15 as amended: script_to_run is set only by a run intent and always
\* together with should_quit = true; run_selected, run_numbered and
\* run_with_args set it to the script that is at position selected of
\* visible_indices at that moment, run_multi_selected sets it to the first
\* run it materialised, a script of the multi-select set that need not be
\* the one at selected; a run intent with no selectable script changes
\* neither script_to_run nor should_quit.
C15_RunIntentRunsSelectedOrFirstOfSet ==
  InLoop =>
    \A key \in AllKeys : \A order \in OrdersFor(app.mode, key) :
      LET b == handle_key(app, key, order)
          runs == handle_key_runs(app, key, order)
      IN /\ b.script_to_run # app.script_to_run =>
              /\ IsRunIntent(app.mode, key)
              /\ b.should_quit
              /\ IF app.mode.kind = "MultiSelect"
                 THEN /\ b.script_to_run = <<runs[1]>>
                      /\ \E i \in app.mode.selected :
                           /\ i < VisibleCount
                           /\ runs[1].script = VisibleScript(app, i)
                 ELSE /\ b.selected < Len(b.visible_indices)
                      /\ b.script_to_run[1].script =
                           VisibleScript(b, b.selected)
         /\ (IsRunIntent(app.mode, key) /\ VisibleCount = 0) =>
              /\ b.script_to_run = app.script_to_run
              /\ b.should_quit = app.should_quit

\* Enter committed a multi-select set while the cursor was on a script
\* other than the one stored in script_to_run.
C15_Witness ==
  /\ prev_kind = "MultiSelect"
  /\ quit_key = Key("Enter")
  /\ app.should_quit
  /\ app.script_to_run # <<>>
  /\ app.selected < VisibleCount
  /\ app.script_to_run[1].script # VisibleScript(app, app.selected)

\* C16: in Normal mode, key 0 changes no state; a digit key k in 1-9 with
\* k <= n sets selected = k-1 and fires a run intent for the k-th visible
\* script; a digit key k > n changes no state.
C16_NormalDigitKeys ==
  (InLoop /\ app.mode.kind = "Normal") =>
    /\ handle_key(app, Char("0"), <<>>) = app
    /\ \A c \in Digits19 :
         LET k == DigitValue(c)
             b == handle_key(app, Char(c), <<>>)
         IN IF k <= VisibleCount
            THEN b = [app EXCEPT
                        !.selected = k - 1,
                        !.should_quit = TRUE,
                        !.script_to_run =
                          <<ScriptRun(VisibleScript(app, k - 1), <<>>,
                                      get_workspace_info(app))>>]
            ELSE b = app

\* A digit above 1 was pressed in Normal mode while another position was
\* selected, and ended the loop with the run of that script.
C16_Witness ==
  /\ prev_kind = "Normal"
  /\ quit_key.code = "Char"
  /\ quit_key.ch \in Digits19
  /\ DigitValue(quit_key.ch) >= 2
  /\ app.should_quit
  /\ app.selected = DigitValue(quit_key.ch) - 1
  /\ prev_selected # app.selected
  /\ app.script_to_run # <<>>
  /\ app.script_to_run[1].script = VisibleScript(app, app.selected)

\* C17: move_down from grid position (row, col) selects (row+1)*c + col
\* when that index is < n; otherwise, if the current row is not the last
\* row, it selects n-1; otherwise selected is unchanged.
C17_MoveDown ==
  (InLoop /\ VisibleCount > 0) =>
    LET n == VisibleCount
        c == app.columns
        row == app.selected \div c
        col == app.selected % c
        last == ((n + c - 1) \div c) - 1
        target == (row + 1) * c + col
    IN move_down(app) =
         [app EXCEPT !.selected = IF target < n THEN target
                                  ELSE IF row < last THEN n - 1
                                  ELSE app.selected]

\* Down was pressed in Filter mode above a last row that lacks the column
\* of the cursor: the selection jumped from position 1 to n-1 = 3, which
\* no other key of Filter mode does.
C17_Witness ==
  /\ InLoop
  /\ prev_kind = "Filter"
  /\ app.mode.kind = "Filter"
  /\ app.columns = 3
  /\ VisibleCount = 4
  /\ prev_selected = 1
  /\ app.selected = 3

\* C18: every motion (move_up, move_down, move_left, move_right,
\* move_to_first, move_to_last) leaves the whole state unchanged when
\* n = 0, and for n > 0 changes only selected (move_up selecting
\* (row-1)*c + col when row > 0, left/right stepping by one within
\* [0, n-1]).
C18_Motions ==
  InLoop =>
    LET n == VisibleCount
        c == app.columns
        sel == app.selected
        row == sel \div c
        col == sel % c
        To(i) == [app EXCEPT !.selected = i]
    IN IF n = 0
       THEN /\ move_up(app) = app
            /\ move_down(app) = app
            /\ move_left(app) = app
            /\ move_right(app) = app
            /\ move_to_first(app) = app
            /\ move_to_last(app) = app
       ELSE /\ move_up(app) = To(IF row > 0 THEN (row - 1) * c + col ELSE sel)
            /\ move_down(app) = To(move_down(app).selected)
            /\ move_down(app).selected \in 0..(n - 1)
            /\ move_left(app) = To(IF sel > 0 THEN sel - 1 ELSE sel)
            /\ move_right(app) = To(IF sel < n - 1 THEN sel + 1 ELSE sel)
            /\ move_to_first(app) = To(0)
            /\ move_to_last(app) = To(n - 1)

\* Up was pressed in Filter mode on the second row of a three-column grid:
\* the selection went from position 3 to position 0, which no other key of
\* Filter mode does.
C18_Witness ==
  /\ InLoop
  /\ prev_kind = "Filter"
  /\ app.mode.kind = "Filter"
  /\ app.columns = 3
  /\ VisibleCount = 4
  /\ prev_selected = 3
  /\ app.selected = 0

\* C19: when columns = 1, move_left has the same effect as move_up and
\* move_right has the same effect as move_down, from every state.
C19_SingleColumnLeftRight ==
  (InLoop /\ app.columns = 1) =>
    /\ move_left(app) = move_up(app)
    /\ move_right(app) = move_down(app)

\* A motion key of Filter mode moved the selection by one position in a
\* single-column list of three or more scripts.
C19_Witness ==
  /\ InLoop
  /\ prev_kind = "Filter"
  /\ app.mode.kind = "Filter"
  /\ app.columns = 1
  /\ VisibleCount >= 3
  /\ prev_selected = 1
  /\ app.selected = 2

\* The successor of a sort mode in the cycle Recent, Alpha, Category.
NextSortMode(m) ==
  CASE m = "Recent" -> "Alpha"
    [] m = "Alpha" -> "Category"
    [] m = "Category" -> "Recent"

\* C20: each press of `s` in Normal mode advances sort_mode in the cycle
\* Recent -> Alpha -> Category -> Recent, so three presses from any
\* sort_mode return to the original mode.
C20_SortCycle ==
  (InLoop /\ app.mode.kind = "Normal") =>
    LET s1 == handle_key(app, Char("s"), <<>>)
        s2 == handle_key(s1, Char("s"), <<>>)
        s3 == handle_key(s2, Char("s"), <<>>)
    IN /\ s1.sort_mode = NextSortMode(app.sort_mode)
       /\ s1.mode = ModeNormal
       /\ ~s1.should_quit
       /\ s2.sort_mode = NextSortMode(s1.sort_mode)
       /\ s3.sort_mode = app.sort_mode

\* `s` was pressed in Normal mode under Category and the list is now
\* ordered by Recent.
C20_Witness ==
  /\ InLoop
  /\ prev_kind = "Normal"
  /\ app.mode = ModeNormal
  /\ prev_sort_mode = "Category"
  /\ app.sort_mode = "Recent"
  /\ VisibleCount >= 2

\* The text of `name` before its first ':' (the whole name without one).
TextBeforeColon(name) ==
  IF \E i \in 1..Len(name) : name[i] = ":"
  THEN SubSeq(name, 1,
              (CHOOSE i \in 1..Len(name) :
                 name[i] = ":" /\ \A j \in 1..(i - 1) : name[j] # ":") - 1)
  ELSE name

\* The name of the script at store index i of the running app.
NameAt(i) == Nth(app.scripts, i).name

\* C21: for a fixed filter_text and script store, the set of indices in
\* visible_indices is the same under every sort_mode and only the order
\* differs: Alpha is ascending by name, Category is ascending by (text
\* before the first ':', then name).
C21_SortModeOnlyReorders ==
  InLoop =>
    \A mode \in SortModes :
      LET v == set_sort_mode(app, mode).visible_indices
      IN /\ Range(v) = Range(app.visible_indices)
         /\ Len(v) = Len(app.visible_indices)
         /\ mode = "Alpha" =>
              \A i, j \in 1..Len(v) :
                i < j => str_cmp(NameAt(v[i]), NameAt(v[j])) < 0
         /\ mode = "Category" =>
              \A i, j \in 1..Len(v) :
                i < j =>
                  LET c == str_cmp(TextBeforeColon(NameAt(v[i])),
                                   TextBeforeColon(NameAt(v[j])))
                  IN c < 0 \/ (c = 0 /\ str_cmp(NameAt(v[i]), NameAt(v[j])) < 0)

\* `s` changed Alpha into Category on a store whose order by category is
\* not its order by name.
C21_Witness ==
  /\ InLoop
  /\ prev_kind = "Normal"
  /\ prev_sort_mode = "Alpha"
  /\ app.sort_mode = "Category"
  /\ VisibleCount >= 2
  /\ \E i, j \in 1..VisibleCount :
       /\ i < j
       /\ str_cmp(NameAt(app.visible_indices[i]),
                  NameAt(app.visible_indices[j])) > 0

\* The indices update_visible_scripts hands to sort_indices: the store
\* order without a filter, the filter's score-descending order with one.
SuppliedIndices ==
  LET matches == filter_scripts(app.filter_text, app.scripts,
                                app.search_descriptions)
  IN IF app.filter_text = <<>> THEN [i \in 1..Len(app.scripts) |-> i - 1]
     ELSE [k \in 1..Len(matches) |-> matches[k][1]]

\* C22: under sort_mode = Recent, scripts that have no history entry keep
\* the relative order in which they were supplied to the sort, so with a
\* non-empty filter and no history the visible order is the fuzzy filter's
\* score-descending order.
C22_RecentKeepsSuppliedOrder ==
  (InLoop /\ app.sort_mode = "Recent") =>
    LET NoHistory(i) == get_script(app.history, NameAt(i)) = <<>>
    IN /\ SelectSeq(app.visible_indices, NoHistory) =
            SelectSeq(SuppliedIndices, NoHistory)
       /\ (app.filter_text # <<>> /\ app.history = {}) =>
            app.visible_indices = SuppliedIndices

\* The order of two scored scripts: score descending, then name ascending.
RecentBefore(history, x, y) ==
  LET ScoreOf(script) ==
        IF get_script(history, script.name) = <<>> THEN 0
        ELSE score_at(get_script(history, script.name)[1])
  IN \/ ScoreOf(x) > ScoreOf(y)
     \/ ScoreOf(x) = ScoreOf(y) /\ str_cmp(x.name, y.name) < 0

InTuiState(t) == t.raw_mode \/ t.alt_screen \/ t.cursor_hidden

\* C28: no script is spawned while the terminal is in TUI state: the step
\* that starts a child begins in a state where raw mode is off, the
\* alternate screen is left and the cursor is shown, a restore having been
\* performed.
C28_RestoredBeforeSpawn ==
  [][spawned' # spawned =>
       /\ ~InTuiState(terminal)
       /\ terminal.teardowns >= 1
       /\ ~InTuiState(terminal')]_vars

C28_Witness ==
  /\ Len(spawned) >= 1
  /\ committed # <<>>
  /\ ~InTuiState(terminal)
  /\ terminal.teardowns = 1

\* ------------------------------------------------------------ C29
\* C29: the step in which run_tui returns from the event loop, with the
\* chosen scripts or with an error, performs the restore once, leaves the
\* terminal out of TUI state, and no later step of the caller restores again.
C29_RestoreExactlyOnce ==
  [][/\ ((pc = "tui" /\ pc' \in {"exec", "done"}) =>
           /\ terminal.teardowns = 0
           /\ terminal'.teardowns = 1
           /\ ~InTuiState(terminal')
           /\ ~terminal'.raw_flag)
      /\ (pc \in {"exec", "done"} => terminal' = terminal)]_vars

C29_Witness ==
  /\ pc = "done"
  /\ exit_status = <<GENERAL_ERROR>>
  /\ terminal.teardowns = 1
  /\ ~InTuiState(terminal)

\* ------------------------------------------------------------ C30
\* C30: after a panic while the TUI is active the teardown has been
\* performed once, the hook's and the guard's restores counted together.
C30_PanicTeardownOnce ==
  pc = "panicked" => terminal.teardowns = 1

\* ------------------------------------------------------------ C24
\* Run counts and ages around the corners of the score.
SampleCounts == {0, 1, 3, 99, 100, 101, 250}

SampleDays == {-2, 0, 1, 5, 25, 29, 30, 31, 40}

\* C24: 3000 * score is 9 * min(count, 100) plus 2100 for a run today or in
\* the future, plus nothing for a run 30 or more days ago (so the score is
\* never negative), plus 2100 - 70 * days_ago in between; this holds of the
\* entries of the loaded history and of the sampled ones.  Consequently
\* count 100 / 5 days ago is listed before count 1 / today, and behind it
\* when the first was last run 25 days ago.
C24_Score ==
  LET Entries == {HistEntry(<<"x">>, c, d) : c \in SampleCounts, d \in SampleDays}
                   \cup app.history
      a == <<"a">>
      b == <<"b">>
      Ranked(days) ==
        get_sorted_by_recent({HistEntry(a, 1, 0), HistEntry(b, 100, days)},
                             <<Script(a, NoDesc), Script(b, NoDesc)>>)
  IN /\ \A h \in Entries :
          /\ score_at(h) >= 0
          /\ score_at(h) - 9 * Min(h.count, 100) =
               (CASE h.days_ago <= 0 -> 2100
                  [] h.days_ago >= 30 -> 0
                  [] OTHER -> 2100 - 70 * h.days_ago)
     /\ Ranked(5) = <<Script(b, NoDesc), Script(a, NoDesc)>>
     /\ Ranked(25) = <<Script(a, NoDesc), Script(b, NoDesc)>>

\* The loaded history ranks lint (100 runs, 5 days ago) before test (3 runs,
\* today) and both before the scripts never run.
C24_Witness ==
  /\ InLoop
  /\ prev_kind # "None"
  /\ app.sort_mode = "Recent"
  /\ app.filter_text = <<>>
  /\ app.history # {}
  /\ VisibleCount >= 2
  /\ NameAt(app.visible_indices[1]) = <<"l","i","n","t">>
  /\ NameAt(app.visible_indices[2]) = <<"t","e","s","t">>

\* ------------------------------------------------------------ C25
\* The record_run calls of the log for project p, and for its script s.
CallsOfProject(p) ==
  LET Test(c) == c[1] = p IN SelectSeq(hs.log, Test)

CallsOfScript(p, s) ==
  LET Test(c) == c[1] = p /\ c[2] = s IN SelectSeq(hs.log, Test)

\* C25: after a sequence of record_run calls the count of (p, s) is the
\* count before the sequence (none for a missing entry) plus the number of
\* calls made for (p, s), its last_args are those of the latest such call,
\* p's last_script is the script of the latest call for p, and a project
\* or script no call was made for is as it was before.
C25_RecordRunCounts ==
  \A p \in ProjectDirs :
    IF CallsOfProject(p) = <<>>
    THEN /\ (p \in DOMAIN hs.history) = (p \in DOMAIN hs.base)
         /\ p \in DOMAIN hs.base => hs.history[p] = hs.base[p]
    ELSE /\ p \in DOMAIN hs.history
         /\ hs.history[p].last_script =
              <<CallsOfProject(p)[Len(CallsOfProject(p))][2]>>
         /\ \A s \in ScriptNames :
              LET calls == CallsOfScript(p, s)
                  known == p \in DOMAIN hs.base /\ s \in DOMAIN hs.base[p].scripts
                  before == IF known THEN hs.base[p].scripts[s].count ELSE 0
                  scripts == hs.history[p].scripts
              IN IF calls = <<>>
                 THEN /\ (s \in DOMAIN scripts) = known
                      /\ known => scripts[s] = hs.base[p].scripts[s]
                 ELSE /\ s \in DOMAIN scripts
                      /\ scripts[s].count = before + Len(calls)
                      /\ scripts[s].last_args = calls[Len(calls)][3]

\* Two calls for one script with different arguments, the second of them
\* later than the first.
C25_Witness ==
  /\ Len(hs.log) = 2
  /\ hs.now = 1
  /\ \E p \in ProjectDirs, s \in ScriptNames :
       /\ Len(CallsOfScript(p, s)) = 2
       /\ CallsOfScript(p, s)[1][3] # CallsOfScript(p, s)[2][3]
       /\ hs.history[p].scripts[s].count = 2

\* ------------------------------------------------------------ C26
\* C26: whatever the limits and the maps' iteration orders, cleanup leaves
\* at most max_projects projects with at most max_scripts scripts each,
\* keeps the entries it keeps as they were, evicts no project newer than a
\* kept project and no script newer than a kept script of its project,
\* removes nothing from a map within its limit, and a second cleanup with
\* the same limits changes nothing.
C26_Cleanup ==
  \A max_projects \in Limits, max_scripts \in Limits,
     orders \in Orders(hs.history) :
    LET before == hs.history
        after == cleanup_with_limits(before, max_projects, max_scripts, orders)
    IN /\ Cardinality(DOMAIN after) <= max_projects
       /\ DOMAIN after \subseteq DOMAIN before
       /\ \A gone \in DOMAIN before \ DOMAIN after, kept \in DOMAIN after :
            before[gone].last_run <= before[kept].last_run
       /\ Cardinality(DOMAIN before) <= max_projects =>
            DOMAIN after = DOMAIN before
       /\ \A d \in DOMAIN after :
            LET was == before[d].scripts
                is == after[d].scripts
            IN /\ Cardinality(DOMAIN is) <= max_scripts
               /\ DOMAIN is \subseteq DOMAIN was
               /\ \A s \in DOMAIN is : is[s] = was[s]
               /\ after[d].last_run = before[d].last_run
               /\ after[d].last_script = before[d].last_script
               /\ \A gone \in DOMAIN was \ DOMAIN is, kept \in DOMAIN is :
                    was[gone].last_run <= was[kept].last_run
               /\ Cardinality(DOMAIN was) <= max_scripts => is = was
       /\ \A again \in Orders(after) :
            cleanup_with_limits(after, max_projects, max_scripts, again) = after

\* A cleanup has evicted the older of two entries and kept the newer.
C26_Witness ==
  /\ hs.evicted
  /\ hs.calls >= 2
  /\ hs.history # History_new
  /\ \E d \in DOMAIN hs.history : hs.history[d].last_run = hs.now
  /\ hs.now >= 1

\* ------------------------------------------------------------ C27
\* C27: a history file that load found corrupt is never overwritten in
\* place by a later save.
C27_CorruptNeverOverwritten ==
  ~hs.overwritten

\* ------------------------------------------------------------ C32
\* C32: select_workspace_by_number(n) is select_workspace(n - 1) for every
\* n in 1..=|workspaces|+1, which makes entry n - 1 of the selector (0 the
\* root, i the workspace i - 1) the workspace context and leaves the
\* selector, and it changes nothing for any other n; a digit key in
\* WorkspaceSelect calls it with the digit's value.
C32_SelectWorkspaceByNumber ==
  (InLoop /\ app.mode.kind = "WorkspaceSelect") =>
    /\ \A n \in 0..10 :
         LET b == select_workspace_by_number(app, n)
         IN IF n \in 1..(Len(app.workspaces) + 1)
            THEN /\ b = select_workspace(app, n - 1)
                 /\ b.workspace_context =
                      (IF n = 1 THEN ContextRoot ELSE ContextWorkspace(n - 2))
                 /\ n >= 2 => b.scripts = Nth(app.workspaces, n - 2).scripts
                 /\ b.mode = ModeNormal
            ELSE b = app
    /\ \A c \in Digits19 :
         handle_key(app, Char(c), <<>>) =
           select_workspace_by_number(app, DigitValue(c))

C32_Witness ==
  /\ InLoop
  /\ prev_kind = "WorkspaceSelect"
  /\ app.mode = ModeNormal
  /\ app.workspace_selected = 0
  /\ app.workspace_context = ContextWorkspace(1)
  /\ app.scripts = Nth(app.workspaces, 1).scripts

\* ------------------------------------------------------------ C35
\* C35: in Normal mode both q and Esc quit the application.
C35_NormalQuitKeys ==
  (InLoop /\ app.mode.kind = "Normal") =>
    /\ handle_key(app, Char("q"), <<>>).should_quit
    /\ handle_key(app, Key("Esc"), <<>>).should_quit

\* ------------------------------------------------------------ C36
\* C36: in Filter mode Enter runs the script at position 0 of
\* visible_indices, wherever the selection is.
C36_FilterEnterRunsFirst ==
  (InLoop /\ app.mode.kind = "Filter" /\ VisibleCount > 0) =>
    /\ handle_key_runs(app, Key("Enter"), <<>>) =
         <<ScriptRun(VisibleScript(app, 0), <<>>, get_workspace_info(app))>>
    /\ handle_key(app, Key("Enter"), <<>>).script_to_run =
         <<ScriptRun(VisibleScript(app, 0), <<>>, get_workspace_info(app))>>

\* ------------------------------------------------------------ C37
\* C37: filter_text is non-empty only in Filter mode, and in Filter mode
\* the query of the mode is filter_text.
C37_FilterTextFollowsMode ==
  /\ app.filter_text # <<>> => app.mode.kind = "Filter"
  /\ app.mode.kind = "Filter" => app.mode.query = app.filter_text

\* A query was typed and then given up with Esc or Backspace.
C37_Witness ==
  /\ InLoop
  /\ prev_kind = "Filter"
  /\ app.mode = ModeNormal
  /\ app.filter_text = <<>>
  /\ app.selected > 0

\* ------------------------------------------------------------ C38
\* C38: ? in WorkspaceSelect opens Help, and every key that dismisses it
\* (every key but Ctrl+C, which quits) leaves the app in Normal mode with
\* the scripts and the workspace context it had before Help was opened.
C38_HelpFromWorkspaceSelect ==
  (InLoop /\ app.mode.kind = "WorkspaceSelect") =>
    LET opened == handle_key(app, Char("?"), <<>>)
    IN /\ opened.mode = ModeHelp
       /\ \A key \in AllKeys \ {CtrlC} :
            LET closed == handle_key(opened, key, <<>>)
            IN /\ closed.mode = ModeNormal
               /\ ~closed.should_quit
               /\ closed.scripts = app.scripts
               /\ closed.visible_indices = app.visible_indices
               /\ closed.workspace_context = app.workspace_context

\* Help is shown over the workspace selector.
C38_Witness ==
  /\ InLoop
  /\ prev_kind = "WorkspaceSelect"
  /\ app.mode = ModeHelp
  /\ app.is_monorepo

\* ------------------------------------------------------------ C40
\* C40: from every state of the loop, Esc followed by q (q being read only
\* if the loop has not ended on Esc) ends the loop with script_to_run as
\* it was.
C40_EscThenQQuits ==
  InLoop =>
    LET escaped == handle_key(app, Key("Esc"), <<>>)
        done == IF escaped.should_quit THEN escaped
                ELSE handle_key(escaped, Char("q"), <<>>)
    IN /\ done.should_quit
       /\ done.script_to_run = app.script_to_run

\* The loop has ended on q without a script to run.
C40_Witness ==
  /\ pc = "tui"
  /\ app.should_quit
  /\ quit_key = Char("q")
  /\ prev_kind = "Normal"
  /\ app.script_to_run = <<>>
  /\ committed = <<>>

\* ------------------------------------------------------------ C31
\* C31: the loop polls for input only right after it has rendered the
\* state it is in; the rendered projection is whole (it is the projection
\* its own filter and sort define); a step that changes the App renders
\* nothing and a step that renders changes nothing, so every change lies
\* between two renders; and once should_quit is set there is no further
\* dispatch and no further frame.
C31_RenderThenPoll ==
  /\ [](/\ rl.phase = "poll" => rl.frame = <<app>>
        /\ rl.frame # <<>> =>
             rl.frame[1].visible_indices =
               update_visible_scripts(rl.frame[1]).visible_indices
        /\ app.should_quit => rl.phase = "exit")
  /\ [][/\ app' # app => (rl'.frame = rl.frame /\ rl.phase \in {"size", "poll"})
        /\ rl'.frame # rl.frame =>
             (app' = app /\ rl'.frame = <<app>> /\ rl.phase = "draw")
        /\ app.should_quit => (app' = app /\ rl'.frame = rl.frame)]_vars

\* The loop is left on a key; the frame shown last is the one before it.
C31_Witness ==
  /\ rl.phase = "exit"
  /\ app.should_quit
  /\ rl.frame # <<>>
  /\ ~rl.frame[1].should_quit
  /\ rl.frame[1].mode = app.mode

\* ------------------------------------------------------------ C33
\* What the claim has the process exit with after the children `results`:
\* the code of the first child that did not exit 0, 130 for a child that
\* ended without an exit code, 0 when every child exited 0.
RECURSIVE ClaimedExit(_)
ClaimedExit(results) ==
  IF results = <<>> THEN 0
  ELSE IF Head(results) = <<>> THEN INTERRUPTED
  ELSE IF Head(results)[1] # 0 THEN Head(results)[1]
  ELSE ClaimedExit(Tail(results))

\* C33: after the scripts chosen in the TUI were run the exit code is 0 if
\* every child exited 0, else that of the first child that did not, and
\* 130 when the child ended without an exit code.
C33_ExitCodeOfChildren ==
  (pc = "done" /\ spawned # <<>>) => exit_status = <<ClaimedExit(child_results)>>

\* ------------------------------------------------------------ C34
\* Argument strings as the Args mode may hold them.
ArgStrings ==
  {<<>>, <<" ">>, <<"t">>, <<"t", " ", "0">>, <<" ", "t", "0", " ", " ", "1">>}

\* C34: the argv is [npm, run, s], [yarn, s], [pnpm, s] or [bun, run, s]
\* followed by the args, with one `--` between them exactly when the
\* runner is Npm or Pnpm and there is at least one arg; this holds of the
\* scripts the program starts with, under the sampled argument strings, and
\* of the run the TUI has chosen.
C34_SpawnedArgv ==
  \A runner \in Runners :
    LET Prefix(script) ==
          CASE runner = "Npm"  -> <<<<"n","p","m">>, <<"r","u","n">>, script>>
            [] runner = "Yarn" -> <<<<"y","a","r","n">>, script>>
            [] runner = "Pnpm" -> <<<<"p","n","p","m">>, script>>
            [] runner = "Bun"  -> <<<<"b","u","n">>, <<"r","u","n">>, script>>
        Holds(cmd, script, args) ==
          LET n == Len(Prefix(script))
              separated == runner \in {"Npm", "Pnpm"} /\ args # <<>>
              k == IF separated THEN 1 ELSE 0
          IN /\ Len(cmd) = n + k + Len(args)
             /\ SubSeq(cmd, 1, n) = Prefix(script)
             /\ separated => cmd[n + 1] = <<"-", "-">>
             /\ SubSeq(cmd, n + k + 1, Len(cmd)) = args
    IN /\ pc = "start" =>
            \A i \in 1..Len(app.scripts), str \in ArgStrings :
              Holds(run_command_with_args(runner, app.scripts[i].name,
                                          split_whitespace(str)),
                    app.scripts[i].name, split_whitespace(str))
       /\ \A i \in 1..Len(scripts_to_run) :
            LET run == scripts_to_run[i]
                args == IF run.args = <<>> THEN <<>>
                        ELSE split_whitespace(run.args[1])
            IN Holds(argv(runner, run), run.script.name, args)

\* A script is spawned with an argument typed in Args mode.
C34_Witness ==
  /\ spawned # <<>>
  /\ spawned[1].args # <<>>
  /\ split_whitespace(spawned[1].args[1]) # <<>>
  /\ \E runner \in {"Npm", "Pnpm"} :
       <<"-", "-">> \in {argv(runner, spawned[1])[i] :
                          i \in 1..Len(argv(runner, spawned[1]))}

\* ------------------------------------------------------------ C39
\* C39: whenever run_tui has returned, with the scripts or with an error,
\* a setup that failed partway included, raw mode is disabled and
\* TERMINAL_RAW_MODE is false.
C39_RawModeOffAfterReturn ==
  pc \in {"exec", "done"} => (~terminal.raw_mode /\ ~terminal.raw_flag)

====
